---- MODULE Spec2Model ----
(***************************************************************************)
(* Verification model of the SSE stream processor of this repository:      *)
(* class StreamProcessorOptimized (src/src/providers/streamProcessor.ts).  *)
(*                                                                         *)
(* Eleven specifications share the module.                                 *)
(*   Spec       one session of a StreamProcessorOptimized: the stream      *)
(*              events (data / end / error), the timers, stop(), the       *)
(*              delivery path (batchBuffer, messageQueue,                  *)
(*              pendingDataBuffer, webview.postMessage) and, when a        *)
(*              history file is configured, the FileWriter of the session  *)
(*              with its callbacks.  A data event carries the lines of     *)
(*              the chunk, each line abstracted to what processJsonChunk   *)
(*              makes of it.                                               *)
(*   SpecParse  the text path of the data handler, character by character: *)
(*              line buffering, the data: prefix, processJsonChunk,        *)
(*              tryParseMultipleJson and JSON.parse.                       *)
(*   SpecMerge  Spec for a processor built with initialBatchSize 1,        *)
(*              maxQueueLength 1 and no history file, where every flush    *)
(*              finds the queue full.                                      *)
(*   SpecAdapt  the adaptive parameters: constructor, the reset of         *)
(*              processStream and adaptiveAdjust.                          *)
(*   SpecWriter one FileWriter (src/src/examples/axios-sse-stream.ts):     *)
(*              write / flush / close, the callbacks it schedules and the  *)
(*              file stream underneath.                                    *)
(*   SpecBasic  one session of the basic class StreamProcessor:            *)
(*              batching, backpressure and acknowledgments.                *)
(*   SpecFragment the parser of SpecParse fed data lines that carry        *)
(*              fragments which never complete.                            *)
(*   SpecCarry  sessions whose data lines leave text in jsonBuffer.        *)
(*   SpecRate   the measurement of the arrival rate in the data handler.   *)
(*   SpecHistory one session of the basic StreamProcessor with a history   *)
(*              file: fileWriteQueue, the file write timer, flushFileQueue.*)
(*   SpecProvider one CaseWebviewProvider                                  *)
(*              (src/src/providers/caseWebviewProvider.ts) and the         *)
(*              sessions its startStream messages create.                  *)
(* Records are numbered in the order handleData is called for them.        *)
(***************************************************************************)
EXTENDS Integers, Sequences, FiniteSets, TLC

\* ------------------------------------------------------------------ bounds
MaxStreamLines == 3    \* lines the stream delivers in one session
MaxPostFailures == 1   \* webview.postMessage calls that throw in one session
MaxStops == 1          \* stop() calls on one processor
MaxValues == 2         \* JSON values concatenated on one data line
MaxCuts == 1           \* cuts of one JSON text into several data lines
MaxQueueSamples == 3   \* queue lengths recorded in queueLengthHistory
MaxAdaptiveTicks == 2  \* callbacks of the adaptive timer
MaxWriteFailures == 2  \* writes to the file stream that throw
MaxWrites == 2         \* FileWriter.write calls on one writer
MaxCalls == 2          \* FileWriter.flush and FileWriter.close calls on one writer
MaxBasicRecords == 130 \* records one session of the basic StreamProcessor receives
MaxClock == 1500       \* milliseconds of a session the rate measurement is followed for
MaxPayloads == 3       \* data lines that complete records while the rate is measured
MaxFragmentLines == 2  \* data lines of a stream that carries fragments
MaxRetryTimers == 2    \* retries of flushBatchBuffer scheduled at one time
MaxSessions == 2       \* startStream messages one provider handles
MaxDoneLines == 1      \* data: [DONE] lines the stream of one of its sessions carries
MaxLoggedRecords == 3  \* records a session of the basic StreamProcessor logs to its history file
MaxAppendFailures == 1 \* appendFile calls that fail in one such session

VARIABLES
  \* ---- options copied by the constructor (readonly fields)
  ensureDataIntegrity, maxQueueLength, maxBatchSize, initialBatchSize,
  webview, historyFilePath,
  \* ---- fields of StreamProcessorOptimized
  isStopped, batchBuffer, messageQueue, pendingDataBuffer,
  totalDataReceived, totalDataSent, currentBatchSize,
  sendDue,            \* Date.now() - lastSendTime >= currentMessageInterval
  messageIntervalId, adaptiveIntervalId, fileWriter, stream,
  \* ---- locals of processStream that live across events
  jsonBuffer,         \* "empty" | "ok" (text JSON.parse accepts) | "bad"
  lineBuffer,         \* "empty" | "obj" (an unterminated data line holding an object)
  \* ---- control
  phase,              \* "idle" | "connecting" | "streaming" | "failed"
  doneAwaiting,       \* [DONE] branches suspended at await flushFileWriter()
  endAwaiting,        \* end handlers suspended at await flushFileWriter()
  cleanupAwaiting,    \* cleanup() calls suspended at await fileWriter.close()
  \* ---- environment
  postPlan,           \* outcomes of the next postMessage calls (FALSE = throws)
  env,                \* what the stream of this session may carry
  nextRecord,         \* records handed to handleData so far
  linesSeen,          \* lines the stream has delivered so far
  \* ---- observation (history, no effect on the program)
  posted,             \* data arrays of the streamData messages posted, in order
  signals,            \* terminal notifications emitted, in order
  postFailures,       \* postMessage calls that threw
  flushPeak,          \* largest messageQueue.length seen when flushBatchBuffer returned
  mergeLog,           \* what the last queue-overflow merge found and left
  stopLog,            \* what stop() found and did
  failLog,            \* the last postMessage call that threw, and what the catch left
  \* ---- SpecParse
  pValues,            \* the JSON texts the stream carries
  pCuts,              \* where the payload is cut into data lines
  pTail,              \* how the stream ends: "newline" | "none" | "done"
  pText,              \* the stream, character by character
  pPos,               \* characters delivered so far
  pChunking,          \* "none" | "whole" | "chars" | "mixed": the chunks so far
  pLineBuffer,        \* processStream: let lineBuffer
  pJson,              \* processStream: jsonBuffer, isParsingJson, braceCount, ...
  pEmitted,           \* values handed to handleData, in order
  pCompleted,         \* onComplete calls
  pEnded,             \* the end event was handled
  \* ---- SpecAdapt
  options,            \* the numeric options the constructor was given (0: not given)
  adaptive,           \* the adaptive parameters and what adaptiveAdjust reads
  \* ---- SpecWriter
  fw,                 \* a FileWriter, its pending callbacks and what reached the file
  \* ---- SpecBasic
  basic,              \* a basic StreamProcessor, its timers and what it posted
  \* ---- SpecProvider
  provider            \* a CaseWebviewProvider and the processors it has started

sessionVars == << ensureDataIntegrity, maxQueueLength, maxBatchSize, initialBatchSize,
  webview, historyFilePath, isStopped, batchBuffer, messageQueue, pendingDataBuffer,
  totalDataReceived, totalDataSent, currentBatchSize, sendDue, messageIntervalId,
  adaptiveIntervalId, fileWriter, stream, jsonBuffer, lineBuffer, phase, doneAwaiting,
  endAwaiting, cleanupAwaiting, postPlan, env, nextRecord, linesSeen, posted, signals,
  postFailures, flushPeak, mergeLog, stopLog, failLog >>

parseVars == << pValues, pCuts, pTail, pText, pPos, pChunking, pLineBuffer, pJson,
  pEmitted, pCompleted, pEnded >>

adaptVars == << options, adaptive >>

writerVars == << fw >>

\* What the actions of Spec leave alone.
basicVars == << basic >>

providerVars == << provider >>

otherVars == << parseVars, adaptVars, basicVars, providerVars >>

vars == << sessionVars, writerVars, otherVars >>

\* --------------------------------------------------------------- helpers
Max(a, b) == IF a >= b THEN a ELSE b
Min(a, b) == IF a <= b THEN a ELSE b
Take(s, n) == SubSeq(s, 1, Min(n, Len(s)))
Drop(s, n) == SubSeq(s, Min(n, Len(s)) + 1, Len(s))

RECURSIVE Flatten(_)
Flatten(q) == IF q = << >> THEN << >> ELSE Head(q) \o Flatten(Tail(q))

Range(s) == { s[i] : i \in 1..Len(s) }

\* The mutable state of the processor and its observers as one record, so that the
\* methods below can be composed the way the code calls them.
Cur == [ isStopped |-> isStopped, batchBuffer |-> batchBuffer,
         messageQueue |-> messageQueue, pendingDataBuffer |-> pendingDataBuffer,
         totalDataReceived |-> totalDataReceived, totalDataSent |-> totalDataSent,
         currentBatchSize |-> currentBatchSize, sendDue |-> sendDue,
         messageIntervalId |-> messageIntervalId,
         adaptiveIntervalId |-> adaptiveIntervalId,
         fileWriter |-> fileWriter, stream |-> stream,
         jsonBuffer |-> jsonBuffer, lineBuffer |-> lineBuffer,
         doneAwaiting |-> doneAwaiting, endAwaiting |-> endAwaiting,
         cleanupAwaiting |-> cleanupAwaiting,
         postPlan |-> postPlan, nextRecord |-> nextRecord,
         posted |-> posted, signals |-> signals, postFailures |-> postFailures,
         flushPeak |-> flushPeak, mergeLog |-> mergeLog, stopLog |-> stopLog,
         failLog |-> failLog, fw |-> fw ]

Install(s) ==
  /\ isStopped' = s.isStopped
  /\ batchBuffer' = s.batchBuffer
  /\ messageQueue' = s.messageQueue
  /\ pendingDataBuffer' = s.pendingDataBuffer
  /\ totalDataReceived' = s.totalDataReceived
  /\ totalDataSent' = s.totalDataSent
  /\ currentBatchSize' = s.currentBatchSize
  /\ sendDue' = s.sendDue
  /\ messageIntervalId' = s.messageIntervalId
  /\ adaptiveIntervalId' = s.adaptiveIntervalId
  /\ fileWriter' = s.fileWriter
  /\ stream' = s.stream
  /\ jsonBuffer' = s.jsonBuffer
  /\ lineBuffer' = s.lineBuffer
  /\ doneAwaiting' = s.doneAwaiting
  /\ endAwaiting' = s.endAwaiting
  /\ cleanupAwaiting' = s.cleanupAwaiting
  /\ postPlan' = s.postPlan
  /\ nextRecord' = s.nextRecord
  /\ posted' = s.posted
  /\ signals' = s.signals
  /\ postFailures' = s.postFailures
  /\ flushPeak' = s.flushPeak
  /\ mergeLog' = s.mergeLog
  /\ stopLog' = s.stopLog
  /\ failLog' = s.failLog
  /\ fw' = s.fw

optionVars == << ensureDataIntegrity, maxQueueLength, maxBatchSize, initialBatchSize,
  webview, historyFilePath >>

\* ------------------------------------------------------------ FileWriter
\* new FileWriter(options): the fields after the constructor, which opens the
\* stream and starts the flush timer.  data is a sequence of lines; one line counts
\* as one byte against batchSize.
FileWriter(o, e) ==
  [ batchSize |-> o.batchSize, maxQueueLength |-> o.maxQueueLength,
    queueFullStrategy |-> o.queueFullStrategy, maxRetries |-> o.maxRetries,
    writeQueue |-> << >>, writeStream |-> "open", isWriting |-> FALSE,
    flushTimer |-> TRUE, currentBuffer |-> << >>, isClosed |-> FALSE,
    totalErrors |-> 0, totalWrites |-> 0,
    \* pending callbacks
    immediates |-> << >>, retryTimers |-> 0, drainWaiting |-> FALSE,
    flushPending |-> 0, closing |-> "no", hung |-> FALSE,
    \* environment
    env |-> e,
    \* observation
    calls |-> [write |-> 0, flush |-> 0, close |-> 0],
    accepted |-> << >>, dropped |-> << >>, written |-> << >>, ended |-> FALSE,
    failures |-> << >>, onErrors |-> 0 ]

Task(kind, data) == [kind |-> kind, data |-> data]

\* handleError: counted, emitted, and onError scheduled with setImmediate.
handleError(w) ==
  [w EXCEPT !.totalErrors = @ + 1, !.immediates = Append(@, Task("onError", << >>))]

\* flushBuffer: the buffer is taken and its write scheduled with setImmediate.
flushBuffer(w) ==
  IF w.writeStream = "null" \/ w.currentBuffer = << >> \/ w.isClosed
  THEN w
  ELSE [w EXCEPT !.currentBuffer = << >>, !.isWriting = TRUE,
                 !.immediates = Append(@, Task("write", w.currentBuffer))]

\* processQueue: the loop that moves queue items to the batch.
RECURSIVE TakeBatch(_, _)
TakeBatch(w, size) ==
  IF w.writeQueue = << >> \/ size >= w.batchSize
  THEN w
  ELSE TakeBatch([w EXCEPT !.writeQueue = Tail(@),
                           !.currentBuffer = @ \o Head(w.writeQueue).data],
                 size + Len(Head(w.writeQueue).data))

\* processQueue: the buffer is flushed once it holds batchSize bytes.
FlushIfBatch(w) == IF Len(w.currentBuffer) >= w.batchSize THEN flushBuffer(w) ELSE w

CanProcess(w) ==
  ~w.isWriting /\ w.writeStream # "null" /\ w.writeQueue # << >> /\ ~w.isClosed

processQueue(w) == IF CanProcess(w) THEN FlushIfBatch(TakeBatch(w, 0)) ELSE w

\* write(data): the queue-full strategy, the push and the scheduled processQueue.
QueueFull(w) == Len(w.writeQueue) >= w.maxQueueLength /\ w.queueFullStrategy = "drop"

Pushed(w, line) ==
  [w EXCEPT !.writeQueue = Append(@, [data |-> << line >>, retries |-> 0]),
            !.accepted = Append(@, line),
            !.immediates = Append(@, Task("processQueue", << >>))]

DropOldest(w) ==
  [w EXCEPT !.writeQueue = Tail(@), !.dropped = @ \o Head(w.writeQueue).data]

\* A write that takes the line although the writer is closed.
write_WhenClosed(w, line) ==
  IF QueueFull(w) THEN Pushed(DropOldest(w), line) ELSE Pushed(w, line)

write(w, line) ==
  IF w.isClosed THEN w
  ELSE IF QueueFull(w) THEN Pushed(DropOldest(w), line) ELSE Pushed(w, line)

\* retryWrite(data): the queue item with the same data, if there is one.
RECURSIVE IndexOf(_, _, _)
IndexOf(queue, data, i) ==
  IF i > Len(queue) THEN 0
  ELSE IF queue[i].data = data THEN i ELSE IndexOf(queue, data, i + 1)

Without(queue, i) == SubSeq(queue, 1, i - 1) \o SubSeq(queue, i + 1, Len(queue))

RetryExisting(w, i) ==
  IF w.writeQueue[i].retries + 1 >= w.maxRetries
  THEN [w EXCEPT !.writeQueue = Without(@, i), !.totalErrors = @ + 1,
                 !.dropped = @ \o w.writeQueue[i].data]
  ELSE [w EXCEPT !.writeQueue[i].retries = @ + 1, !.retryTimers = @ + 1]

RetryAt(w, data, i) ==
  IF i > 0
  THEN RetryExisting(w, i)
  ELSE [w EXCEPT !.writeQueue = << [data |-> data, retries |-> 1] >> \o @,
                 !.retryTimers = @ + 1]

retryWrite(w, data) == RetryAt(w, data, IndexOf(w.writeQueue, data, 1))

\* The callback flushBuffer scheduled: writeStream.write(dataToWrite).
WriteThrew(w, data) ==
  retryWrite(handleError([w EXCEPT !.isWriting = FALSE,
                                   !.failures = Append(@, data)]), data)

WriteReturned(w, data, canContinue) ==
  IF canContinue
  THEN [w EXCEPT !.written = @ \o data, !.totalWrites = @ + 1, !.isWriting = FALSE,
                 !.immediates = Append(@, Task("processQueue", << >>))]
  ELSE [w EXCEPT !.written = @ \o data, !.totalWrites = @ + 1,
                 !.drainWaiting = TRUE]

WriteCallback(w, data, outcome) ==
  IF w.writeStream = "null" \/ outcome = "throw"
  THEN WriteThrew(w, data)
  ELSE WriteReturned(w, data, outcome = "ok")

\* One setImmediate callback.
RunTask(w, task, outcome) ==
  CASE task.kind = "processQueue" -> processQueue(w)
    [] task.kind = "write"        -> WriteCallback(w, task.data, outcome)
    [] task.kind = "onError"      -> [w EXCEPT !.onErrors = @ + 1]

\* drain: the listener of initializeStream and the once-listener of flushBuffer.
drain(w) == processQueue(processQueue([w EXCEPT !.isWriting = FALSE,
                                                !.drainWaiting = FALSE]))

\* flush(): while (writeQueue.length > 0) processQueue() never returns when
\* processQueue cannot take anything.
RECURSIVE FlushLoop(_)
FlushLoop(w) ==
  IF w.writeQueue = << >> THEN w
  ELSE IF CanProcess(w) THEN FlushLoop(processQueue(w))
  ELSE [w EXCEPT !.hung = TRUE]

FlushCurrent(w) == IF w.currentBuffer # << >> THEN flushBuffer(w) ELSE w

\* checkComplete: what flush() waits for.
FlushComplete(w) ==
  w.writeQueue = << >> /\ w.currentBuffer = << >> /\ ~w.isWriting

FlushAwaited(w) == IF w.hung THEN w ELSE [w EXCEPT !.flushPending = @ + 1]

flush(w) ==
  IF w.writeStream = "null" THEN w ELSE FlushAwaited(FlushLoop(FlushCurrent(w)))

\* close(): isClosed is set and the timer stopped, then await this.flush().
CloseAwaited(w) == IF w.hung THEN w ELSE [w EXCEPT !.closing = "flushing"]

CloseFlush(w) ==
  IF w.writeStream = "null"
  THEN [w EXCEPT !.closing = "done"]
  ELSE CloseAwaited(FlushLoop(FlushCurrent(w)))

close(w) ==
  IF w.isClosed THEN w
  ELSE CloseFlush([w EXCEPT !.isClosed = TRUE, !.flushTimer = FALSE])

\* close() after its await: writeStream.end(callback).
closeFlushed(w) ==
  IF w.writeStream = "null"
  THEN [w EXCEPT !.closing = "done"]
  ELSE [w EXCEPT !.closing = "ending", !.ended = TRUE]

\* ------------------------------------------------------- webview.postMessage
\* The next postMessage call returns normally unless the environment planned a throw.
PostOk(s) == s.postPlan = << >> \/ Head(s.postPlan)

PostCalled(s) ==
  [s EXCEPT !.postPlan = IF @ = << >> THEN @ ELSE Tail(@),
            !.postFailures = IF PostOk(s) THEN @ ELSE @ + 1]

\* ------------------------------------------------------ delivery methods
\* Observation: the batch whose postMessage call threw, the pending buffer the
\* catch block leaves, and totalDataSent before the call and after the catch.
FailureLogged(s, batch, caught) ==
  [caught EXCEPT !.failLog = [batch |-> batch, pending |-> caught.pendingDataBuffer,
                              sentBefore |-> s.totalDataSent,
                              sentAfter |-> caught.totalDataSent]]

\* catch: in integrity mode pendingDataBuffer.push(...batch).
PutBack(s, batch) ==
  [s EXCEPT !.pendingDataBuffer = IF ensureDataIntegrity THEN @ \o batch ELSE @]

\* sendBatchImmediately with a catch block that takes the batch off totalDataSent.
sendBatchImmediately_UncountFailed(s, batch) ==
  IF Len(batch) = 0 \/ ~webview \/ s.isStopped
  THEN s
  ELSE IF PostOk(s)
       THEN [PostCalled(s) EXCEPT !.posted = Append(@, batch),
                                  !.totalDataSent = @ + Len(batch),
                                  !.sendDue = FALSE]
       ELSE FailureLogged(s, batch,
              [PutBack(PostCalled(s), batch) EXCEPT !.totalDataSent = @ - Len(batch)])

sendBatchImmediately(s, batch) ==
  IF Len(batch) = 0 \/ ~webview \/ s.isStopped
  THEN s
  ELSE IF PostOk(s)
       THEN [PostCalled(s) EXCEPT !.posted = Append(@, batch),
                                  !.totalDataSent = @ + Len(batch),
                                  !.sendDue = FALSE]
       ELSE FailureLogged(s, batch, PutBack(PostCalled(s), batch))

\* forceMergeAndSend: the loop over allData in slices of `size`.
RECURSIVE SendInChunks(_, _, _)
SendInChunks(s, allData, size) ==
  IF allData = << >> THEN s
  ELSE SendInChunks(sendBatchImmediately(s, Take(allData, size)), Drop(allData, size), size)

\* forceMergeAndSend: in slices when allData is longer than size, else in one call.
SendMerged(s, allData, size) ==
  IF Len(allData) > size
  THEN SendInChunks(s, allData, size)
  ELSE sendBatchImmediately(s, allData)

\* Observation: what a forced merge found (before), posted and left in the buffers.
ForceMergeLogged(s, sent) ==
  [sent EXCEPT !.mergeLog =
     [kind |-> "force",
      before |-> Flatten(s.messageQueue) \o s.pendingDataBuffer,
      posted |-> Flatten(SubSeq(sent.posted, Len(s.posted) + 1, Len(sent.posted))),
      held |-> Flatten(sent.messageQueue) \o sent.pendingDataBuffer]]

forceMergeAndSend(s) ==
  IF Len(s.messageQueue) = 0 /\ Len(s.pendingDataBuffer) = 0
  THEN s
  ELSE ForceMergeLogged(s,
         SendMerged([s EXCEPT !.messageQueue = << >>, !.pendingDataBuffer = << >>],
                    Flatten(s.messageQueue) \o s.pendingDataBuffer,
                    maxBatchSize * 2))

\* A merge that makes room by dropping the oldest half of the queue.
mergeQueueItems_DropOldest(s) ==
  IF Len(s.messageQueue) < 2
  THEN s
  ELSE [s EXCEPT !.messageQueue = Drop(@, Len(@) \div 2)]

mergeQueueItems(s) ==
  IF Len(s.messageQueue) < 2
  THEN s
  ELSE [s EXCEPT !.messageQueue =
          << Flatten(SubSeq(@, 1, Len(@) \div 2)) >> \o Drop(@, Len(@) \div 2)]

sendNextBatch(s) ==
  IF s.isStopped THEN s
  ELSE IF Len(s.pendingDataBuffer) > 0
       THEN sendBatchImmediately(
              [s EXCEPT !.pendingDataBuffer = Drop(@, s.currentBatchSize)],
              Take(s.pendingDataBuffer, s.currentBatchSize))
       ELSE IF Len(s.messageQueue) = 0 \/ ~webview
            THEN s
            ELSE sendBatchImmediately([s EXCEPT !.messageQueue = Tail(@)],
                                      Head(s.messageQueue))

\* Observation: what a queue-overflow merge found (before) and left (held).
MergeLogged(s, batch, merged) ==
  [merged EXCEPT !.mergeLog =
     [kind |-> "merge",
      before |-> Flatten(s.messageQueue) \o batch,
      posted |-> << >>,
      held |-> Flatten(merged.messageQueue)]]

\* flushBatchBuffer: the batch taken out of batchBuffer goes to the buffers.
Enqueue(s, batch) ==
  IF ensureDataIntegrity
  THEN IF Len(s.messageQueue) >= maxQueueLength
       THEN forceMergeAndSend([s EXCEPT !.pendingDataBuffer = @ \o batch])
       ELSE [s EXCEPT !.pendingDataBuffer = @ \o batch,
                      !.messageQueue = Append(@, batch)]
  ELSE IF Len(s.messageQueue) >= maxQueueLength
       THEN MergeLogged(s, batch,
              [mergeQueueItems(s) EXCEPT !.messageQueue = Append(@, batch)])
       ELSE [s EXCEPT !.messageQueue = Append(@, batch)]

\* flushBatchBuffer: its last statement.
SendIfDue(s) == IF s.sendDue THEN sendNextBatch(s) ELSE s

\* Observation: the queue length flushBatchBuffer returns with.
NotePeak(s) == [s EXCEPT !.flushPeak = Max(@, Len(s.messageQueue))]

flushBatchBuffer(s) ==
  IF Len(s.batchBuffer) = 0 \/ ~webview \/ s.isStopped
  THEN s
  ELSE NotePeak(SendIfDue(Enqueue([s EXCEPT !.batchBuffer = << >>], s.batchBuffer)))

\* flushAllBuffers: the loop that sends every queue item.
RECURSIVE DrainQueue(_)
DrainQueue(s) ==
  IF Len(s.messageQueue) = 0 THEN s
  ELSE DrainQueue(sendBatchImmediately([s EXCEPT !.messageQueue = Tail(@)],
                                       Head(s.messageQueue)))

\* flushAllBuffers: pendingDataBuffer is sent in one call and then emptied.
SendPending(s) ==
  IF Len(s.pendingDataBuffer) > 0
  THEN [sendBatchImmediately(s, s.pendingDataBuffer) EXCEPT !.pendingDataBuffer = << >>]
  ELSE s

\* flushAllBuffers: the batch buffer is flushed first.
FlushBatchIfAny(s) == IF Len(s.batchBuffer) > 0 THEN flushBatchBuffer(s) ELSE s

flushAllBuffers(s) == DrainQueue(SendPending(FlushBatchIfAny(s)))

\* handleData: flush when the batch is full.
FlushIfFull(s) ==
  IF Len(s.batchBuffer) >= s.currentBatchSize THEN flushBatchBuffer(s) ELSE s

\* handleData: the line of the record goes to the FileWriter, if there is one.
Logged(s, data) == IF s.fileWriter THEN [s EXCEPT !.fw = write(@, data)] ELSE s

handleData(s, data) ==
  IF s.isStopped THEN s
  ELSE FlushIfFull(Logged([s EXCEPT !.totalDataReceived = @ + 1,
                                    !.batchBuffer = Append(@, data)], data))

\* flushFileWriter() up to its await of fileWriter.flush().
flushFileWriter(s) == IF s.fileWriter THEN [s EXCEPT !.fw = flush(@)] ELSE s

\* An awaited flushFileWriter() can resume: the flush is complete, or the call
\* found no FileWriter and flushed nothing.
FlushSettled(s) ==
  FlushComplete(s.fw) \/ s.doneAwaiting + s.endAwaiting > s.fw.flushPending

FlushResumed(s) ==
  [s EXCEPT !.fw.flushPending = IF FlushComplete(s.fw) /\ @ > 0 THEN @ - 1 ELSE @]


\* --------------------------------------------------------------- cleanup
\* cleanup() after its await of fileWriter.close(): the rest of the method.
FinalFlush(s) == IF ensureDataIntegrity THEN flushAllBuffers(s) ELSE flushBatchBuffer(s)

cleanupRest(s) == FinalFlush([s EXCEPT !.fileWriter = FALSE, !.adaptiveIntervalId = FALSE])

\* cleanup() up to its first suspension.  With a FileWriter the method suspends at
\* await this.fileWriter.close(); without one it runs through to its last statement.
CloseCalled(s) == IF s.fw.hung THEN s ELSE [s EXCEPT !.cleanupAwaiting = @ + 1]

cleanup(s) ==
  IF s.fileWriter
  THEN CloseCalled([s EXCEPT !.messageIntervalId = FALSE, !.fw = close(@)])
  ELSE cleanupRest([s EXCEPT !.messageIntervalId = FALSE])

\* An awaited fileWriter.close() can resume: the stream was ended, or the call
\* found the writer closed already and returned at once.
CloseSettled(s) ==
  s.cleanupAwaiting > 1 \/ (s.cleanupAwaiting = 1 /\ s.fw.closing = "done")

\* ------------------------------------------------------------ terminal signals
Signal(s, kind, from) ==
  [s EXCEPT !.signals = Append(@, [kind |-> kind, from |-> from,
                                   totalReceived |-> s.totalDataReceived,
                                   totalSent |-> s.totalDataSent])]

\* ------------------------------------------------------------------ stop()
\* stop(): isStopped is set and the stream destroyed before anything else.
Halted(s) ==
  [s EXCEPT !.isStopped = TRUE,
            !.stream = IF @ = "open" THEN "destroyed" ELSE @,
            !.stopLog = [calls |-> @.calls + 1,
                         held |-> s.batchBuffer \o Flatten(s.messageQueue)
                                    \o s.pendingDataBuffer,
                         postThrew |-> FALSE]]

\* stop(): the streamStopped message, posted inside try/catch.
PostStopped(s) ==
  IF ~webview \/ s.fw.hung THEN s
  ELSE IF PostOk(s)
       THEN PostCalled(Signal(s, "stopped", "stop"))
       ELSE [PostCalled(s) EXCEPT !.stopLog.postThrew = TRUE]

stop(s) ==
  PostStopped(cleanup(IF ensureDataIntegrity
                      THEN flushAllBuffers(Halted(s))
                      ELSE [Halted(s) EXCEPT !.batchBuffer = << >>,
                                             !.messageQueue = << >>,
                                             !.pendingDataBuffer = << >>]))

\* ---------------------------------------------------------- the data handler
\* A complete line of a chunk, by what the handler makes of it:
\*   "obj"      a data line that completes one JSON object      -> one handleData
\*   "arr"      a data line that completes an array or a run of
\*              concatenated values (two of them)               -> two handleData
\*   "fragOk"   a data line that leaves jsonBuffer holding text JSON.parse accepts
\*   "fragBad"  a data line that leaves jsonBuffer holding text JSON.parse rejects
\*   "done"     the line  data: [DONE]
LineKinds == {"obj", "arr", "fragOk", "fragBad", "done"}

NewRecord(s) == handleData([s EXCEPT !.nextRecord = @ + 1], s.nextRecord + 1)

\* The records of one line go to handleData one after the other.
RECURSIVE NewRecords(_, _)
NewRecords(s, n) == IF n = 0 THEN s ELSE NewRecords(NewRecord(s), n - 1)

\* A [DONE] branch that does not look at jsonBuffer.
ParseRest_Skipped(s) == s

\* [DONE] and end: jsonBuffer is parsed as a whole when it is not empty.
ParseRest(s) == IF ~s.isStopped /\ s.jsonBuffer = "ok" THEN NewRecord(s) ELSE s

\* The [DONE] branch up to await this.flushFileWriter().
doneBranch(s) ==
  [flushFileWriter(flushAllBuffers(flushBatchBuffer(ParseRest(s))))
     EXCEPT !.doneAwaiting = @ + 1]

\* A data line other than [DONE].
processLine(s, line) ==
  CASE line = "obj"     -> NewRecords([s EXCEPT !.jsonBuffer = "empty"], 1)
    [] line = "arr"     -> NewRecords([s EXCEPT !.jsonBuffer = "empty"], 2)
    [] line = "fragOk"  -> [s EXCEPT !.jsonBuffer = "ok"]
    [] line = "fragBad" -> [s EXCEPT !.jsonBuffer = "bad"]

RECURSIVE processLines(_, _)
processLines(s, lines) ==
  IF lines = << >> \/ s.isStopped THEN s
  ELSE IF Head(lines) = "done"
       THEN doneBranch(s)
       ELSE processLines(processLine(s, Head(lines)), Tail(lines))

dataHandler(s, lines, tail) ==
  IF s.isStopped
  THEN cleanup(s)
  ELSE processLines([s EXCEPT !.lineBuffer = tail], lines)

\* The rest of the [DONE] branch, after the await.
doneResume(s) ==
  cleanup(Signal([FlushResumed(s) EXCEPT !.doneAwaiting = @ - 1], "completed", "done"))

\* ----------------------------------------------------------- the end handler
\* end: a line left in the line buffer is processed as a data line.
LastLine(s) == IF ~s.isStopped /\ s.lineBuffer = "obj" THEN NewRecord(s) ELSE s

endHandler(s) ==
  [flushFileWriter(flushAllBuffers(flushBatchBuffer(ParseRest(LastLine(s)))))
     EXCEPT !.stream = "ended", !.endAwaiting = @ + 1]

endResume(s) ==
  cleanup(Signal([FlushResumed(s) EXCEPT !.endAwaiting = @ - 1], "completed", "end"))

\* --------------------------------------------------------- the error handler
errorHandler(s) == cleanup(Signal([s EXCEPT !.stream = "errored"], "error", "error"))

\* ------------------------------------------------------- the message timer
RECURSIVE timerLoop(_)
timerLoop(s) ==
  IF Len(s.messageQueue) > 0 /\ s.sendDue
  THEN timerLoop(sendNextBatch(s))
  ELSE s

messageTimer(s) == IF s.isStopped THEN s ELSE timerLoop(s)


\* ================================================================ Spec
\* The state after construction.  The constructor clamps the initial batch size
\* into [minBatchSize, maxBatchSize]; minBatchSize is 1 in every session modelled.
SessionFields ==
  /\ isStopped = FALSE
  /\ batchBuffer = << >>
  /\ messageQueue = << >>
  /\ pendingDataBuffer = << >>
  /\ totalDataReceived = 0
  /\ totalDataSent = 0
  /\ currentBatchSize = Max(1, Min(maxBatchSize, initialBatchSize))
  /\ sendDue = FALSE
  /\ messageIntervalId = FALSE
  /\ adaptiveIntervalId = FALSE
  /\ fileWriter = FALSE
  /\ stream = "null"
  /\ jsonBuffer = "empty"
  /\ lineBuffer = "empty"
  /\ phase = "idle"
  /\ doneAwaiting = 0
  /\ endAwaiting = 0
  /\ cleanupAwaiting = 0
  /\ postPlan = << >>
  /\ nextRecord = 0
  /\ linesSeen = 0
  /\ posted = << >>
  /\ signals = << >>
  /\ postFailures = 0
  /\ flushPeak = 0
  /\ mergeLog = [kind |-> "none", before |-> << >>, posted |-> << >>, held |-> << >>]
  /\ stopLog = [calls |-> 0, held |-> << >>, postThrew |-> FALSE]
  /\ failLog = [batch |-> << >>, pending |-> << >>, sentBefore |-> 0, sentAfter |-> 0]

ParseIdle ==
  /\ pValues = << >>
  /\ pCuts = {}
  /\ pTail = "none"
  /\ pText = << >>
  /\ pPos = 0
  /\ pChunking = "none"
  /\ pLineBuffer = << >>
  /\ pJson = << >>
  /\ pEmitted = << >>
  /\ pCompleted = 0
  /\ pEnded = FALSE

\* options.x || d: an option that is not given (or is 0) takes its default.
OrDefault(x, d) == IF x = 0 THEN d ELSE x

\* constructor(options): the readonly limits and the clamped initial parameters.
Limits(o) ==
  [ minBatchSize |-> OrDefault(o.minBatchSize, 5),
    maxBatchSize |-> OrDefault(o.maxBatchSize, 100),
    minMessageInterval |-> OrDefault(o.minMessageInterval, 50),
    maxMessageInterval |-> OrDefault(o.maxMessageInterval, 500),
    maxQueueLength |-> OrDefault(o.maxQueueLength, 2000) ]

Clamped(o, l) ==
  [ minBatchSize |-> l.minBatchSize,
    maxBatchSize |-> l.maxBatchSize,
    minMessageInterval |-> l.minMessageInterval,
    maxMessageInterval |-> l.maxMessageInterval,
    maxQueueLength |-> l.maxQueueLength,
    currentBatchSize |->
      Max(l.minBatchSize, Min(l.maxBatchSize, OrDefault(o.initialBatchSize, 20))),
    currentMessageInterval |->
      Max(l.minMessageInterval,
          Min(l.maxMessageInterval, OrDefault(o.initialMessageInterval, 100))),
    queueLengthHistory |-> << >>,
    dataReceiveRate |-> 0,
    \* processStream: let dataCount, and Date.now() - dataCountStartTime
    dataCount |-> 0,
    now |-> 0,
    \* observation: records accepted, and the clock and that count at the last
    \* assignment to dataReceiveRate
    received |-> 0, payloads |-> 0, updates |-> 0, lastUpdate |-> 0, receivedAtUpdate |-> 0,
    isStopped |-> FALSE,
    adaptiveIntervalId |-> FALSE,
    \* cleanup() is waiting for fileWriter.close()
    closing |-> FALSE,
    phase |-> "constructed",
    samples |-> 0,
    ticks |-> 0,
    \* observation: callbacks of the adaptive timer that ran after stop()
    ticksStopped |-> 0 ]

constructor(o) == Clamped(o, Limits(o))

NoOptions ==
  [ initialBatchSize |-> 0, minBatchSize |-> 0, maxBatchSize |-> 0,
    initialMessageInterval |-> 0, minMessageInterval |-> 0, maxMessageInterval |-> 0,
    maxQueueLength |-> 0 ]

AdaptIdle ==
  /\ options = NoOptions
  /\ adaptive = constructor(NoOptions)

\* new StreamProcessor(options): the fields after the constructor.
\* options.batchSize 0 stands for an option that is not given.
StreamProcessor(o) ==
  [ batchSize |-> OrDefault(o.batchSize, 10),
    enableBackpressure |-> o.enableBackpressure, webview |-> o.webview,
    historyFilePath |-> o.historyFilePath,
    isStopped |-> FALSE, batchBuffer |-> << >>, pendingMessageCount |-> 0,
    fileWriteQueue |-> << >>, isWritingFile |-> FALSE, fileWriteIntervalId |-> FALSE,
    \* flushFileQueue: const dataToWrite, while the write is awaited
    dataToWrite |-> << >>,
    \* the history file, and the appendFile calls that failed
    file |-> << >>, appendFailures |-> 0,
    acknowledgedMessageCount |-> 0, messageIntervalId |-> FALSE,
    stream |-> "none", phase |-> "idle",
    \* time: messageInterval has elapsed since lastMessageTime
    due |-> FALSE,
    \* pending callbacks
    retryTimers |-> 0,
    \* environment: the next postMessage call throws
    postThrows |-> FALSE,
    \* observation
    nextRecord |-> 0, posted |-> << >>, lost |-> << >>, postFailures |-> 0,
    deferred |-> FALSE, stopped |-> FALSE,
    \* observation: onComplete was called, and what had been posted and received then
    completed |-> FALSE, postedAtComplete |-> 0, recordsAtComplete |-> 0 ]

BasicIdle ==
  basic = StreamProcessor([batchSize |-> 0, enableBackpressure |-> TRUE, webview |-> TRUE,
                           historyFilePath |-> FALSE])

\* new CaseWebviewProvider: no processor yet.
ProviderIdle == provider = [streamProcessorOptimized |-> 0, sessions |-> << >>, stops |-> 0]

WriterIdle ==
  fw = FileWriter([batchSize |-> 1, maxQueueLength |-> 1, queueFullStrategy |-> "wait",
                   maxRetries |-> 1], [stream |-> "clean", text |-> "distinct"])

\* What the stream of the history file does, when there is a history file.
SinkKinds(withFile) == IF withFile THEN {"clean", "slow", "failing"} ELSE {"clean"}

\* initializeFileWriter: the options the session gives its FileWriter.
SessionWriter(sink) ==
  FileWriter([batchSize |-> 65536, maxQueueLength |-> 10000,
              queueFullStrategy |-> "wait", maxRetries |-> 3],
             [stream |-> sink, text |-> "distinct"])

Init ==
  /\ ensureDataIntegrity \in BOOLEAN
  /\ maxQueueLength \in {1, 2}
  /\ maxBatchSize = 1
  /\ initialBatchSize \in {1, 2}
  /\ webview = TRUE
  /\ historyFilePath \in BOOLEAN
  /\ historyFilePath => (maxQueueLength = 1 /\ initialBatchSize = 1)
  /\ \E sink \in SinkKinds(historyFilePath) :
       env = [lines |-> {"obj", "done"}, tails |-> {"empty"},
              postFailures |-> ~historyFilePath, sink |-> sink]
  /\ SessionFields
  /\ ParseIdle
  /\ AdaptIdle
  /\ WriterIdle
  /\ BasicIdle
  /\ ProviderIdle

\* processStream() up to await axios(...): the reset of the per-session state.
ProcessStream ==
  /\ ~fw.hung
  /\ phase = "idle"
  /\ phase' = "connecting"
  /\ Install([Cur EXCEPT !.isStopped = FALSE, !.batchBuffer = << >>,
                         !.messageQueue = << >>, !.pendingDataBuffer = << >>,
                         !.currentBatchSize = initialBatchSize,
                         !.sendDue = FALSE,
                         !.totalDataReceived = 0, !.totalDataSent = 0])
  /\ UNCHANGED << optionVars, env, linesSeen, otherVars >>

\* The request succeeded: the timers and the FileWriter are started and the
\* handlers registered.
ConnectOk ==
  /\ ~fw.hung
  /\ phase = "connecting"
  /\ phase' = "streaming"
  /\ Install([Cur EXCEPT !.stream = "open", !.messageIntervalId = TRUE,
                         !.fileWriter = historyFilePath,
                         !.fw = IF historyFilePath THEN SessionWriter(env.sink) ELSE @,
                         !.adaptiveIntervalId = TRUE])
  /\ UNCHANGED << optionVars, env, linesSeen, otherVars >>

\* The request failed: the catch block of processStream.
ConnectFail ==
  /\ ~fw.hung
  /\ phase = "connecting"
  /\ phase' = "failed"
  /\ Install(cleanup(Signal(Cur, "error", "connect")))
  /\ UNCHANGED << optionVars, env, linesSeen, otherVars >>

OnData(lines, tail) ==
  /\ ~fw.hung
  /\ phase = "streaming"
  /\ stream = "open"
  /\ linesSeen + Max(1, Len(lines)) <= MaxStreamLines
  /\ linesSeen' = linesSeen + Max(1, Len(lines))
  /\ Install(dataHandler(Cur, lines, tail))
  /\ UNCHANGED << optionVars, env, phase, otherVars >>

DoneResume ==
  /\ ~fw.hung
  /\ doneAwaiting > 0
  /\ FlushSettled(Cur)
  /\ Install(doneResume(Cur))
  /\ UNCHANGED << optionVars, env, phase, linesSeen, otherVars >>

OnEnd ==
  /\ ~fw.hung
  /\ phase = "streaming"
  /\ stream = "open"
  /\ Install(endHandler(Cur))
  /\ UNCHANGED << optionVars, env, phase, linesSeen, otherVars >>

EndResume ==
  /\ ~fw.hung
  /\ endAwaiting > 0
  /\ FlushSettled(Cur)
  /\ Install(endResume(Cur))
  /\ UNCHANGED << optionVars, env, phase, linesSeen, otherVars >>

OnError ==
  /\ ~fw.hung
  /\ phase = "streaming"
  /\ stream = "open"
  /\ Install(errorHandler(Cur))
  /\ UNCHANGED << optionVars, env, phase, linesSeen, otherVars >>

CleanupResume ==
  /\ ~fw.hung
  /\ CloseSettled(Cur)
  /\ Install(cleanupRest([Cur EXCEPT !.cleanupAwaiting = @ - 1]))
  /\ UNCHANGED << optionVars, env, phase, linesSeen, otherVars >>

Stop ==
  /\ ~fw.hung
  /\ phase \in {"connecting", "streaming"}
  /\ stopLog.calls < MaxStops
  /\ Install(stop(Cur))
  /\ UNCHANGED << optionVars, env, phase, linesSeen, otherVars >>

MessageTimer ==
  /\ ~fw.hung
  /\ messageIntervalId
  /\ Install(messageTimer(Cur))
  /\ UNCHANGED << optionVars, env, phase, linesSeen, otherVars >>

\* Time passes: currentMessageInterval has elapsed since lastSendTime.
Tick ==
  /\ ~fw.hung
  /\ phase = "streaming"
  /\ ~sendDue
  /\ sendDue' = TRUE
  /\ UNCHANGED << optionVars, isStopped, batchBuffer, messageQueue, pendingDataBuffer,
                  totalDataReceived, totalDataSent, currentBatchSize, messageIntervalId,
                  adaptiveIntervalId, fileWriter, stream, jsonBuffer, lineBuffer, phase,
                  doneAwaiting, endAwaiting, cleanupAwaiting, postPlan, env, nextRecord,
                  linesSeen, posted, signals, postFailures, flushPeak, mergeLog, stopLog,
                  failLog, writerVars, otherVars >>

\* The webview goes away for one postMessage call: the call planned FALSE throws.
PostPlans == { << FALSE >>, << TRUE, FALSE >> }

PlanPostFailure(plan) ==
  /\ ~fw.hung
  /\ phase = "streaming"
  /\ webview
  /\ env.postFailures
  /\ postPlan = << >>
  /\ postFailures < MaxPostFailures
  /\ postPlan' = plan
  /\ UNCHANGED << optionVars, isStopped, batchBuffer, messageQueue, pendingDataBuffer,
                  totalDataReceived, totalDataSent, currentBatchSize, sendDue,
                  messageIntervalId, adaptiveIntervalId, fileWriter, stream, jsonBuffer,
                  lineBuffer, phase, doneAwaiting, endAwaiting, cleanupAwaiting,
                  env, nextRecord, linesSeen, posted, signals, postFailures,
                  flushPeak, mergeLog, stopLog, failLog, writerVars, otherVars >>

\* The callbacks of the session's FileWriter: setImmediate in FIFO order, the
\* retry timeout, the flush timer, drain, and the end of close().
Outcomes(w) ==
  {"ok"} \cup (IF w.env.stream = "slow" THEN {"full"} ELSE {})
         \cup (IF w.env.stream = "failing" /\ Len(w.failures) < MaxWriteFailures
               THEN {"throw"} ELSE {})

FwImmediate(outcome) ==
  /\ ~fw.hung
  /\ fw.immediates # << >>
  /\ outcome = "ok" \/ (Head(fw.immediates).kind = "write" /\ fw.writeStream # "null")
  /\ fw' = RunTask([fw EXCEPT !.immediates = Tail(@)], Head(fw.immediates), outcome)
  /\ UNCHANGED << sessionVars, parseVars, adaptVars, basicVars, providerVars >>

FwRetryTimer ==
  /\ ~fw.hung
  /\ fw.retryTimers > 0
  /\ fw' = processQueue([fw EXCEPT !.retryTimers = @ - 1])
  /\ UNCHANGED << sessionVars, parseVars, adaptVars, basicVars, providerVars >>

FwFlushTimer ==
  /\ ~fw.hung
  /\ fw.flushTimer
  /\ fw.currentBuffer # << >>
  /\ fw' = flushBuffer(fw)
  /\ UNCHANGED << sessionVars, parseVars, adaptVars, basicVars, providerVars >>

FwDrain ==
  /\ ~fw.hung
  /\ fw.drainWaiting
  /\ fw' = drain(fw)
  /\ UNCHANGED << sessionVars, parseVars, adaptVars, basicVars, providerVars >>

FwCloseFlushed ==
  /\ ~fw.hung
  /\ fw.closing = "flushing"
  /\ FlushComplete(fw)
  /\ fw' = closeFlushed(fw)
  /\ UNCHANGED << sessionVars, parseVars, adaptVars, basicVars, providerVars >>

\* The callback of writeStream.end().
FwEnded ==
  /\ ~fw.hung
  /\ fw.closing = "ending"
  /\ fw' = [fw EXCEPT !.closing = "done", !.writeStream = "null"]
  /\ UNCHANGED << sessionVars, parseVars, adaptVars, basicVars, providerVars >>

ChunkLines == UNION { [1..n -> env.lines] : n \in 0..(MaxStreamLines - linesSeen) }

Next ==
  \/ ProcessStream
  \/ ConnectOk
  \/ ConnectFail
  \/ \E lines \in ChunkLines, tail \in env.tails : OnData(lines, tail)
  \/ DoneResume
  \/ OnEnd
  \/ EndResume
  \/ OnError
  \/ CleanupResume
  \/ Stop
  \/ MessageTimer
  \/ Tick
  \/ \E plan \in PostPlans : PlanPostFailure(plan)
  \/ \E outcome \in Outcomes(fw) : FwImmediate(outcome)
  \/ FwRetryTimer
  \/ FwFlushTimer
  \/ FwDrain
  \/ FwCloseFlushed
  \/ FwEnded

Spec == Init /\ [][Next]_vars

\* Sessions of a processor built with batch size 1, a queue bound of 1 and no
\* history file: every flush after the first finds the queue at its bound.  Without
\* a FileWriter none of its callbacks runs and cleanup() never suspends.
InitMerge == Init /\ initialBatchSize = 1 /\ maxQueueLength = 1 /\ ~historyFilePath

NextMerge ==
  \/ ProcessStream
  \/ ConnectOk
  \/ ConnectFail
  \/ \E lines \in ChunkLines, tail \in env.tails : OnData(lines, tail)
  \/ DoneResume
  \/ OnEnd
  \/ EndResume
  \/ OnError
  \/ Stop
  \/ MessageTimer
  \/ Tick
  \/ \E plan \in PostPlans : PlanPostFailure(plan)

SpecMerge == InitMerge /\ [][NextMerge]_vars

\* Sessions without a history file and without failing postMessage calls whose
\* data lines may leave text in jsonBuffer.
InitCarry ==
  /\ ensureDataIntegrity \in BOOLEAN
  /\ maxQueueLength = 2
  /\ maxBatchSize = 1
  /\ initialBatchSize \in {1, 2}
  /\ webview = TRUE
  /\ historyFilePath = FALSE
  /\ env = [lines |-> {"obj", "fragOk", "fragBad", "done"}, tails |-> {"empty"},
            postFailures |-> FALSE, sink |-> "clean"]
  /\ SessionFields
  /\ ParseIdle
  /\ AdaptIdle
  /\ WriterIdle
  /\ BasicIdle
  /\ ProviderIdle

NextCarry ==
  \/ ProcessStream
  \/ ConnectOk
  \/ ConnectFail
  \/ \E lines \in ChunkLines, tail \in env.tails : OnData(lines, tail)
  \/ DoneResume
  \/ OnEnd
  \/ EndResume
  \/ OnError
  \/ Stop
  \/ MessageTimer
  \/ Tick

SpecCarry == InitCarry /\ [][NextCarry]_vars


\* ============================================================ SpecParse
\* Text is a sequence of one-character strings.
\* ------------------------------------------------------- String.prototype
Whitespace == {" ", "\n"}

RECURSIVE trimStart(_)
trimStart(t) == IF t # << >> /\ Head(t) \in Whitespace THEN trimStart(Tail(t)) ELSE t

RECURSIVE trimEnd(_)
trimEnd(t) ==
  IF t # << >> /\ t[Len(t)] \in Whitespace THEN trimEnd(SubSeq(t, 1, Len(t) - 1)) ELSE t

trim(t) == trimEnd(trimStart(t))

startsWith(t, prefix) == Len(t) >= Len(prefix) /\ SubSeq(t, 1, Len(prefix)) = prefix

\* lineBuffer.split('\n'): the pieces between the newlines, the last one included.
RECURSIVE split(_, _, _)
split(t, piece, pieces) ==
  IF t = << >> THEN Append(pieces, piece)
  ELSE IF Head(t) = "\n"
       THEN split(Tail(t), << >>, Append(pieces, piece))
       ELSE split(Tail(t), Append(piece, Head(t)), pieces)

\* ------------------------------------------------------------- JSON.parse
\* JSON.parse over the alphabet of the model: objects, arrays, strings with the
\* escapes \" \\ \b \t, and numbers made of the digits 1 2 with an optional
\* exponent.  The parser is the pushdown automaton of the JSON grammar; the
\* value it returns is the text without the whitespace between its tokens.
Digits == {"1", "2"}
Escapable == {"\"", "\\", "b", "t"}

\* A complete value has been read: what may follow it.
JsonAfter(st, c) ==
  CASE c = " " \/ c = "\n" -> [st EXCEPT !.mode = "after"]
    [] c = "," /\ st.stack # << >> ->
         [st EXCEPT !.mode = IF Head(st.stack) = "{" THEN "key" ELSE "val"]
    [] c = "}" /\ st.stack # << >> /\ Head(st.stack) = "{" ->
         [st EXCEPT !.mode = "after", !.stack = Tail(@)]
    [] c = "]" /\ st.stack # << >> /\ Head(st.stack) = "[" ->
         [st EXCEPT !.mode = "after", !.stack = Tail(@)]
    [] OTHER -> [st EXCEPT !.mode = "bad"]

\* A value is expected.
JsonValue(st, c) ==
  CASE c = " " \/ c = "\n" -> st
    [] c = "{" -> [st EXCEPT !.mode = "obj0", !.stack = << "{" >> \o @]
    [] c = "[" -> [st EXCEPT !.mode = "arr0", !.stack = << "[" >> \o @]
    [] c = "\"" -> [st EXCEPT !.mode = "instr"]
    [] c \in Digits -> [st EXCEPT !.mode = "num"]
    [] c = "]" /\ st.mode = "arr0" -> [st EXCEPT !.mode = "after", !.stack = Tail(@)]
    [] OTHER -> [st EXCEPT !.mode = "bad"]

JsonStep(st, c) ==
  CASE st.mode \in {"val", "arr0"} -> JsonValue(st, c)
    [] st.mode = "obj0" ->
         IF c \in Whitespace THEN st
         ELSE IF c = "\"" THEN [st EXCEPT !.mode = "inkey"]
         ELSE IF c = "}" THEN [st EXCEPT !.mode = "after", !.stack = Tail(@)]
         ELSE [st EXCEPT !.mode = "bad"]
    [] st.mode = "key" ->
         IF c \in Whitespace THEN st
         ELSE IF c = "\"" THEN [st EXCEPT !.mode = "inkey"]
         ELSE [st EXCEPT !.mode = "bad"]
    [] st.mode = "inkey" ->
         IF c = "\"" THEN [st EXCEPT !.mode = "colon"]
         ELSE IF c = "\\" THEN [st EXCEPT !.mode = "inkeyEsc"]
         ELSE IF c = "\n" THEN [st EXCEPT !.mode = "bad"]
         ELSE st
    [] st.mode = "inkeyEsc" ->
         [st EXCEPT !.mode = IF c \in Escapable THEN "inkey" ELSE "bad"]
    [] st.mode = "colon" ->
         IF c \in Whitespace THEN st
         ELSE [st EXCEPT !.mode = IF c = ":" THEN "val" ELSE "bad"]
    [] st.mode = "instr" ->
         IF c = "\"" THEN [st EXCEPT !.mode = "after"]
         ELSE IF c = "\\" THEN [st EXCEPT !.mode = "instrEsc"]
         ELSE IF c = "\n" THEN [st EXCEPT !.mode = "bad"]
         ELSE st
    [] st.mode = "instrEsc" ->
         [st EXCEPT !.mode = IF c \in Escapable THEN "instr" ELSE "bad"]
    [] st.mode = "num" ->
         IF c \in Digits THEN st
         ELSE IF c = "E" THEN [st EXCEPT !.mode = "numE"]
         ELSE JsonAfter(st, c)
    [] st.mode = "numE" ->
         [st EXCEPT !.mode = IF c \in Digits THEN "numExp" ELSE "bad"]
    [] st.mode = "numExp" -> IF c \in Digits THEN st ELSE JsonAfter(st, c)
    [] st.mode = "after" -> JsonAfter(st, c)
    [] OTHER -> st

RECURSIVE JsonRun(_, _)
JsonRun(st, t) == IF t = << >> THEN st ELSE JsonRun(JsonStep(st, Head(t)), Tail(t))

JsonAccepts(st) == st.stack = << >> /\ st.mode \in {"after", "num", "numExp"}

IsJson(t) == JsonAccepts(JsonRun([mode |-> "val", stack |-> << >>], t))

\* The text without the whitespace outside its strings.
RECURSIVE Compact(_, _, _, _)
Compact(t, inStr, esc, out) ==
  IF t = << >> THEN out
  ELSE IF inStr
       THEN Compact(Tail(t), esc \/ Head(t) # "\"", ~esc /\ Head(t) = "\\",
                    Append(out, Head(t)))
       ELSE IF Head(t) \in Whitespace
            THEN Compact(Tail(t), FALSE, FALSE, out)
            ELSE Compact(Tail(t), Head(t) = "\"", FALSE, Append(out, Head(t)))

\* JSON.parse(t): the value, or a SyntaxError.
JSONparse(t) ==
  IF IsJson(t)
  THEN [ok |-> TRUE, value |-> Compact(t, FALSE, FALSE, << >>)]
  ELSE [ok |-> FALSE, value |-> << >>]

\* --------------------------------------------------------------- JS values
\* A parsed value is kept as its compact JSON text; Null is JavaScript's null.
Null == << >>

isString(v) == v # << >> /\ Head(v) = "\""

isArray(v) == v # << >> /\ Head(v) = "["

\* if (value): null and the empty string are falsy, objects and arrays are truthy.
Truthy(v) == v # Null /\ v # << "\"", "\"" >>

\* The elements of an array, from the array's compact text without its brackets.
RECURSIVE Items(_, _, _, _, _, _)
Items(t, depth, inStr, esc, item, items) ==
  IF t = << >> THEN IF item = << >> THEN items ELSE Append(items, item)
  ELSE IF inStr
       THEN Items(Tail(t), depth, esc \/ Head(t) # "\"", ~esc /\ Head(t) = "\\",
                  Append(item, Head(t)), items)
       ELSE IF Head(t) = "," /\ depth = 0
            THEN Items(Tail(t), depth, FALSE, FALSE, << >>, Append(items, item))
            ELSE Items(Tail(t),
                       IF Head(t) \in {"{", "["} THEN depth + 1
                       ELSE IF Head(t) \in {"}", "]"} THEN depth - 1 ELSE depth,
                       Head(t) = "\"", FALSE, Append(item, Head(t)), items)

Elements(v) == Items(SubSeq(v, 2, Len(v) - 1), 0, FALSE, FALSE, << >>, << >>)

\* The array whose elements are the given values.
RECURSIVE Joined(_)
Joined(values) ==
  IF values = << >> THEN << >>
  ELSE IF Len(values) = 1 THEN Head(values)
  ELSE Head(values) \o << "," >> \o Joined(Tail(values))

ArrayOf(values) == << "[" >> \o Joined(values) \o << "]" >>

\* The characters of a string value, from its text without the quotes.
RECURSIVE Unescaped(_)
Unescaped(t) ==
  IF t = << >> THEN << >>
  ELSE IF Head(t) = "\\" /\ Len(t) >= 2
       THEN << CASE t[2] = "t" -> "\t" [] t[2] = "b" -> "\\b" [] OTHER -> t[2] >>
              \o Unescaped(Tail(Tail(t)))
       ELSE << Head(t) >> \o Unescaped(Tail(t))

StringValue(v) == Unescaped(SubSeq(v, 2, Len(v) - 1))

\* ------------------------------------------------- tryParseMultipleJson
\* try { results.push(parseData(jsonStr)) } catch { skip }
PushParsed(results, parsed) ==
  IF parsed.ok THEN Append(results, parsed.value) ELSE results

\* One turn of the loop for the character at index i.
MultipleStep(m, jsonString, i) ==
  IF m.escapeNext THEN [m EXCEPT !.escapeNext = FALSE]
  ELSE IF jsonString[i] = "\\" THEN [m EXCEPT !.escapeNext = TRUE]
  ELSE IF jsonString[i] = "\"" THEN [m EXCEPT !.inString = ~@]
  ELSE IF m.inString THEN m
  ELSE IF jsonString[i] \in {"{", "["}
       THEN [m EXCEPT !.startPos = IF @ = -1 THEN i ELSE @, !.depth = @ + 1]
  ELSE IF jsonString[i] \in {"}", "]"}
       THEN IF m.depth - 1 = 0 /\ m.startPos # -1
            THEN [m EXCEPT !.depth = 0, !.startPos = -1,
                           !.results = PushParsed(@, JSONparse(SubSeq(jsonString, m.startPos, i)))]
            ELSE [m EXCEPT !.depth = @ - 1]
  ELSE m

RECURSIVE MultipleLoop(_, _, _)
MultipleLoop(m, jsonString, i) ==
  IF i > Len(jsonString) THEN m
  ELSE MultipleLoop(MultipleStep(m, jsonString, i), jsonString, i + 1)

tryParseMultipleJson(jsonString) ==
  MultipleLoop([depth |-> 0, inString |-> FALSE, escapeNext |-> FALSE,
                startPos |-> -1, results |-> << >>], jsonString, 1).results

\* ------------------------------------------------------- processJsonChunk
\* multipleJson.length === 1 ? multipleJson[0] : multipleJson
OneOrMany(multipleJson) ==
  IF Len(multipleJson) = 1 THEN multipleJson[1] ELSE ArrayOf(multipleJson)

\* The state after a successful parse, with the value found.
ParsedState(completeJson) ==
  [jsonBuffer |-> << >>, isParsingJson |-> FALSE, braceCount |-> 0, bracketCount |-> 0,
   inString |-> FALSE, escapeNext |-> FALSE, completeJson |-> completeJson]

\* typeof parsed === 'string': the string's content is searched for JSON values.
FromString(parsed, multipleJson) ==
  IF Len(multipleJson) > 0 THEN OneOrMany(multipleJson) ELSE parsed

\* catch: the buffer is searched for concatenated JSON values.
FromBuffer(r, multipleJson) ==
  IF Len(multipleJson) > 0 THEN ParsedState(OneOrMany(multipleJson)) ELSE r

AfterParse(r, parsed) ==
  IF parsed.ok
  THEN IF isString(parsed.value)
       THEN ParsedState(FromString(parsed.value,
                                   tryParseMultipleJson(StringValue(parsed.value))))
       ELSE ParsedState(parsed.value)
  ELSE FromBuffer(r, tryParseMultipleJson(trim(r.jsonBuffer)))

\* One turn of the character loop.
CountStep(r, char) ==
  IF r.escapeNext THEN [r EXCEPT !.escapeNext = FALSE]
  ELSE IF char = "\\" THEN [r EXCEPT !.escapeNext = TRUE]
  ELSE IF char = "\"" THEN [r EXCEPT !.inString = ~@]
  ELSE IF r.inString THEN r
  ELSE IF char = "{" THEN [r EXCEPT !.braceCount = @ + 1]
  ELSE IF char = "}" THEN [r EXCEPT !.braceCount = @ - 1]
  ELSE IF char = "[" THEN [r EXCEPT !.bracketCount = @ + 1]
  ELSE IF char = "]" THEN [r EXCEPT !.bracketCount = @ - 1]
  ELSE r

RECURSIVE CountLoop(_, _)
CountLoop(r, chunk) ==
  IF chunk = << >> THEN r ELSE CountLoop(CountStep(r, Head(chunk)), Tail(chunk))

StartsValue(t) == startsWith(trim(t), << "{" >>) \/ startsWith(trim(t), << "[" >>)

CheckComplete(r) ==
  IF r.isParsingJson /\ r.braceCount = 0 /\ r.bracketCount = 0 /\ ~r.inString
     /\ trim(r.jsonBuffer) # << >>
  THEN AfterParse(r, JSONparse(trim(r.jsonBuffer)))
  ELSE r

processJsonChunk(chunk, currentState) ==
  CheckComplete(CountLoop(
    [currentState EXCEPT
       !.jsonBuffer = @ \o chunk,
       !.isParsingJson = @ \/ StartsValue(currentState.jsonBuffer \o chunk)
                           \/ StartsValue(chunk),
       !.completeJson = Null],
    chunk))

\* ------------------------------------------------ the data handler, as text
DataPrefix == << "d", "a", "t", "a", ":", " " >>

DoneMark == << "[", "D", "O", "N", "E", "]" >>

\* if (result.completeJson): an array goes to handleData element by element.
Handled(emitted, completeJson) ==
  IF ~Truthy(completeJson) THEN emitted
  ELSE IF isArray(completeJson) THEN emitted \o Elements(completeJson)
  ELSE Append(emitted, completeJson)

\* [DONE] and end: jsonBuffer.trim() is parsed as a whole and handled as one record.
HandledWhole(emitted, parsed) ==
  IF parsed.ok THEN Append(emitted, parsed.value) ELSE emitted

RestOfBuffer(p) ==
  IF trim(p.json.jsonBuffer) # << >>
  THEN [p EXCEPT !.emitted = HandledWhole(@, JSONparse(trim(p.json.jsonBuffer)))]
  ELSE p

\* The [DONE] branch: the handler returns from it.
DoneLine(p) == [RestOfBuffer(p) EXCEPT !.completed = @ + 1, !.returned = TRUE]

\* A data line that is not [DONE].
DataLine(p, result) ==
  [p EXCEPT !.json = [result EXCEPT !.completeJson = Null],
            !.emitted = Handled(@, result.completeJson)]

OneLine(p, trimmedLine) ==
  IF trimmedLine = << >> \/ ~startsWith(trimmedLine, DataPrefix) THEN p
  ELSE IF trim(Drop(trimmedLine, 6)) = DoneMark THEN DoneLine(p)
  ELSE DataLine(p, processJsonChunk(Drop(trimmedLine, 6), p.json))

RECURSIVE EachLine(_, _)
EachLine(p, lines) ==
  IF lines = << >> \/ p.returned THEN p
  ELSE EachLine(OneLine(p, trim(Head(lines))), Tail(lines))

\* A handler that forgets the unfinished line at the end of a chunk.
Buffered_DropPartial(p, pieces) ==
  EachLine([p EXCEPT !.lineBuffer = << >>, !.returned = FALSE],
           SubSeq(pieces, 1, Len(pieces) - 1))

\* lines = lineBuffer.split('\n'); lineBuffer = lines.pop() || ''
Buffered(p, pieces) ==
  EachLine([p EXCEPT !.lineBuffer = pieces[Len(pieces)], !.returned = FALSE],
           SubSeq(pieces, 1, Len(pieces) - 1))

dataText(p, chunk) == Buffered(p, split(p.lineBuffer \o chunk, << >>, << >>))

\* The end handler: a last line without a newline is handled as one record and
\* leaves jsonBuffer as it was.
LastResult(p, result) ==
  IF Truthy(result.completeJson) THEN [p EXCEPT !.emitted = Append(@, result.completeJson)]
  ELSE p

LastText(p, trimmedLine) ==
  IF trimmedLine # << >> /\ startsWith(trimmedLine, DataPrefix)
     /\ trim(Drop(trimmedLine, 6)) # << >> /\ trim(Drop(trimmedLine, 6)) # DoneMark
  THEN LastResult(p, processJsonChunk(Drop(trimmedLine, 6), p.json))
  ELSE p

endText(p) ==
  [RestOfBuffer(LastText(p, trim(p.lineBuffer))) EXCEPT !.completed = @ + 1,
                                                      !.ended = TRUE]

\* ------------------------------------------------------ the streams fed
\* JSON texts a stream may carry alone on its data lines.
JsonObjects ==
  { << "{", "\"", "a", "\"", ":", "1", "}" >>,
    << "{", "\"", "b", "\"", ":", "2", "}" >>,
    << "{", "\"", "a", "\"", ":", "\"", " ", "}", "\"", "}" >>,
    << "{", "\"", "a", "\"", ":", "\"", "\\", "\"", "\"", "}" >>,
    << "{", "\"", "a", "\"", ":", " ", "[", "2", "]", "}" >> }

JsonArrays == { << "[", "1", ",", "2", "]" >>, << "[", "]" >> }

JsonScalars == { << "1" >>, << "\"", "{", "}", "\"" >> }

JsonTexts == JsonObjects \cup JsonArrays \cup JsonScalars

\* Values a data line may carry concatenated.
Concatenable ==
  { << "{", "\"", "a", "\"", ":", "1", "}" >>,
    << "{", "\"", "b", "\"", ":", "2", "}" >>,
    << "[", "1", ",", "2", "]" >> }

NextCut(cuts, from) == CHOOSE c \in cuts : c >= from /\ \A d \in cuts : d >= from => c <= d

\* The payload cut after the positions in cuts: one piece per data line.
RECURSIVE Pieces(_, _, _)
Pieces(payload, cuts, from) ==
  IF \A c \in cuts : c < from
  THEN << SubSeq(payload, from, Len(payload)) >>
  ELSE << SubSeq(payload, from, NextCut(cuts, from)) >> \o Pieces(payload, cuts, NextCut(cuts, from) + 1)

RECURSIVE Framed(_)
Framed(pieces) ==
  IF pieces = << >> THEN << >>
  ELSE DataPrefix \o Head(pieces) \o << "\n" >> \o Framed(Tail(pieces))

StreamText(values, cuts, tail) ==
  CASE tail = "newline" -> Framed(Pieces(Flatten(values), cuts, 1))
    [] tail = "none"    -> SubSeq(Framed(Pieces(Flatten(values), cuts, 1)), 1,
                                  Len(Framed(Pieces(Flatten(values), cuts, 1))) - 1)
    [] tail = "done"    -> Framed(Pieces(Flatten(values), cuts, 1))
                             \o DataPrefix \o DoneMark \o << "\n" >>

\* ------------------------------------------------------- SpecParse itself
\* The parser state of processStream (its local variables) as one record.
PCur == [lineBuffer |-> pLineBuffer, json |-> pJson, emitted |-> pEmitted,
         completed |-> pCompleted, returned |-> FALSE, ended |-> pEnded]

PInstall(p) ==
  /\ pLineBuffer' = p.lineBuffer
  /\ pJson' = p.json
  /\ pEmitted' = p.emitted
  /\ pCompleted' = p.completed
  /\ pEnded' = p.ended

\* The streams of SpecParse: one JSON text cut over at most MaxCuts + 1 data lines,
\* or up to MaxValues values concatenated on one data line; the last line ends
\* with a newline, ends the stream without one, or is followed by data: [DONE].
StreamValues ==
  [1..1 -> JsonTexts] \cup UNION { [1..k -> Concatenable] : k \in 2..MaxValues }

CutSets(values) ==
  IF Len(values) = 1
  THEN { cuts \in SUBSET (1..(Len(values[1]) - 1)) : Cardinality(cuts) <= MaxCuts }
  ELSE { {} }

InitParse ==
  /\ ensureDataIntegrity = FALSE
  /\ maxQueueLength = 1
  /\ maxBatchSize = 1
  /\ initialBatchSize = 1
  /\ webview = TRUE
  /\ historyFilePath = FALSE
  /\ env = [lines |-> {}, tails |-> {}, postFailures |-> FALSE, sink |-> "clean"]
  /\ SessionFields
  /\ pValues \in StreamValues
  /\ pCuts \in CutSets(pValues)
  /\ pTail \in {"newline", "none", "done"}
  /\ pText = StreamText(pValues, pCuts, pTail)
  /\ pPos = 0
  /\ pChunking = "none"
  /\ pLineBuffer = << >>
  /\ pJson = ParsedState(Null)
  /\ pEmitted = << >>
  /\ pCompleted = 0
  /\ pEnded = FALSE
  /\ AdaptIdle
  /\ WriterIdle
  /\ BasicIdle
  /\ ProviderIdle

\* A data event with the next n characters of the stream.
PData(n) ==
  /\ ~pEnded
  /\ pPos + n <= Len(pText)
  /\ PInstall(dataText(PCur, SubSeq(pText, pPos + 1, pPos + n)))
  /\ pPos' = pPos + n
  /\ pChunking' = IF pChunking = "none"
                  THEN IF n = Len(pText) THEN "whole"
                       ELSE IF n = 1 THEN "chars" ELSE "mixed"
                  ELSE IF pChunking = "chars" /\ n = 1 THEN "chars" ELSE "mixed"
  /\ UNCHANGED << sessionVars, adaptVars, writerVars, basicVars, providerVars, pValues, pCuts, pTail, pText >>

\* The end event, after the whole stream was delivered.
PEnd ==
  /\ ~pEnded
  /\ pText # << >>
  /\ pPos = Len(pText)
  /\ PInstall(endText(PCur))
  /\ UNCHANGED << sessionVars, adaptVars, writerVars, basicVars, providerVars, pValues, pCuts, pTail, pText,
                  pPos, pChunking >>

NextParse ==
  \/ \E n \in 1..Len(pText) : PData(n)
  \/ PEnd

SpecParse == InitParse /\ [][NextParse]_vars

\* --------------------------------------------------------- SpecFragment
\* Streams whose data lines each carry a payload of their own: a well-formed
\* object, a scalar, an object whose closing brace never arrives, or a stray
\* closing brace.  The handlers are those of SpecParse.
Fragments == { << "{", "\"", "a", "\"", ":", "1" >>, << "}" >> }

WellFormed ==
  { << "{", "\"", "a", "\"", ":", "1", "}" >>, << "{", "\"", "b", "\"", ":", "2", "}" >> }

LinePayloads == Fragments \cup WellFormed \cup { << "1" >> }

FragmentText(values, tail) ==
  CASE tail = "newline" -> Framed(values)
    [] tail = "none"    -> SubSeq(Framed(values), 1, Len(Framed(values)) - 1)
    [] tail = "done"    -> Framed(values) \o DataPrefix \o DoneMark \o << "\n" >>

InitFragment ==
  /\ ensureDataIntegrity = FALSE
  /\ maxQueueLength = 1
  /\ maxBatchSize = 1
  /\ initialBatchSize = 1
  /\ webview = TRUE
  /\ historyFilePath = FALSE
  /\ env = [lines |-> {}, tails |-> {}, postFailures |-> FALSE, sink |-> "clean"]
  /\ SessionFields
  /\ pValues \in UNION { [1..k -> LinePayloads] : k \in 1..MaxFragmentLines }
  /\ pCuts = {}
  /\ pTail \in {"newline", "none", "done"}
  /\ pText = FragmentText(pValues, pTail)
  /\ pPos = 0
  /\ pChunking = "none"
  /\ pLineBuffer = << >>
  /\ pJson = ParsedState(Null)
  /\ pEmitted = << >>
  /\ pCompleted = 0
  /\ pEnded = FALSE
  /\ AdaptIdle
  /\ WriterIdle
  /\ BasicIdle
  /\ ProviderIdle

SpecFragment == InitFragment /\ [][NextParse]_vars


\* ============================================================ SpecAdapt
\* The adaptive parameters of one processor: constructor, the reset at the start
\* of processStream, the samples flushBatchBuffer and the data handler record, and
\* the adaptive timer.  Math.floor(x * 1.2) and the like are computed in integers;
\* the thresholds maxQueueLength * 0.7 and the like are compared after scaling by 10.
RECURSIVE Sum(_)
Sum(h) == IF h = << >> THEN 0 ELSE Head(h) + Sum(Tail(h))

RECURSIVE MaxOf(_)
MaxOf(h) == IF Len(h) = 1 THEN Head(h) ELSE Max(Head(h), MaxOf(Tail(h)))

\* avgQueueLength > maxQueueLength * 0.7 || maxQueueLength(history) > maxQueueLength * 0.9
QueuePressureHigh(h, limit) ==
  10 * Sum(h) > 7 * limit * Len(h) \/ 10 * MaxOf(h) > 9 * limit

\* avgQueueLength < maxQueueLength * 0.3 && maxQueueLength(history) < maxQueueLength * 0.5
QueuePressureLow(h, limit) ==
  10 * Sum(h) < 3 * limit * Len(h) /\ 10 * MaxOf(h) < 5 * limit

\* The first half of adaptiveAdjust: by queue pressure.
AdjustByQueue(a) ==
  IF QueuePressureHigh(a.queueLengthHistory, a.maxQueueLength)
  THEN [a EXCEPT !.currentBatchSize = Min(a.maxBatchSize, (@ * 12) \div 10),
                 !.currentMessageInterval = Min(a.maxMessageInterval, (@ * 12) \div 10)]
  ELSE IF QueuePressureLow(a.queueLengthHistory, a.maxQueueLength)
  THEN [a EXCEPT !.currentBatchSize = Max(a.minBatchSize, (@ * 9) \div 10),
                 !.currentMessageInterval = Max(a.minMessageInterval, (@ * 9) \div 10)]
  ELSE a

\* The second half: by the rate at which records arrive.
AdjustByRate(a) ==
  IF a.dataReceiveRate > 100
  THEN [a EXCEPT !.currentBatchSize = Min(a.maxBatchSize, (@ * 11) \div 10)]
  ELSE IF a.dataReceiveRate < 10
  THEN [a EXCEPT !.currentBatchSize = Max(a.minBatchSize, (@ * 95) \div 100)]
  ELSE a

adaptiveAdjust(a) ==
  IF Len(a.queueLengthHistory) < 3 THEN a ELSE AdjustByRate(AdjustByQueue(a))

\* The callback of startAdaptiveTimer without its test of isStopped.
adaptiveTick_WhenStopped(a) == adaptiveAdjust(a)

\* The callback of startAdaptiveTimer: if (this.isStopped) return; adaptiveAdjust().
adaptiveTick(a) == IF a.isStopped THEN a ELSE adaptiveAdjust(a)

\* queueLengthHistory.push(length); if (length > 10) shift()
HistoryCap == 10

Sampled(h) == IF Len(h) > HistoryCap THEN Tail(h) ELSE h

OptionSets ==
  [ initialBatchSize : {0, 1, 3, 6}, minBatchSize : {0, 2}, maxBatchSize : {0, 8},
    initialMessageInterval : {0, 20}, minMessageInterval : {0},
    maxMessageInterval : {0}, maxQueueLength : {0, 4} ]

QueueLengths == {0, 2, 4}
ReceiveRates == {0, 50, 200}

InitAdapt ==
  /\ ensureDataIntegrity = TRUE
  /\ maxQueueLength = 1
  /\ maxBatchSize = 1
  /\ initialBatchSize = 1
  /\ webview = TRUE
  /\ historyFilePath = FALSE
  /\ env = [lines |-> {}, tails |-> {}, postFailures |-> FALSE, sink |-> "clean"]
  /\ SessionFields
  /\ ParseIdle
  /\ options \in OptionSets
  /\ adaptive = constructor(options)
  /\ WriterIdle
  /\ BasicIdle
  /\ ProviderIdle

\* processStream(): the reset of the parameters, up to await axios(...).
AdaptProcessStream ==
  /\ adaptive.phase = "constructed"
  /\ adaptive' = [adaptive EXCEPT
       !.currentBatchSize = OrDefault(options.initialBatchSize, 20),
       !.currentMessageInterval = OrDefault(options.initialMessageInterval, 100),
       !.isStopped = FALSE,
       !.dataReceiveRate = 0,
       !.queueLengthHistory = << >>,
       !.phase = "connecting"]
  /\ UNCHANGED << sessionVars, parseVars, writerVars, basicVars, providerVars, options >>

\* The request succeeded: startAdaptiveTimer().
AdaptConnectOk ==
  /\ adaptive.phase = "connecting"
  /\ adaptive' = [adaptive EXCEPT !.phase = "streaming", !.adaptiveIntervalId = TRUE]
  /\ UNCHANGED << sessionVars, parseVars, writerVars, basicVars, providerVars, options >>

\* flushBatchBuffer records the queue length it leaves.
AdaptSample(length) ==
  /\ adaptive.phase = "streaming"
  /\ ~adaptive.isStopped
  /\ adaptive.samples < MaxQueueSamples
  /\ adaptive' = [adaptive EXCEPT
       !.queueLengthHistory = Sampled(Append(@, length)),
       !.samples = @ + 1]
  /\ UNCHANGED << sessionVars, parseVars, writerVars, basicVars, providerVars, options >>

\* The data handler publishes the number of records of the last second.
AdaptRate(rate) ==
  /\ adaptive.phase = "streaming"
  /\ ~adaptive.isStopped
  /\ adaptive.dataReceiveRate # rate
  /\ adaptive' = [adaptive EXCEPT !.dataReceiveRate = rate]
  /\ UNCHANGED << sessionVars, parseVars, writerVars, basicVars, providerVars, options >>

\* A callback of the adaptive timer.
AdaptiveTimer ==
  /\ adaptive.adaptiveIntervalId
  /\ adaptive.ticks < MaxAdaptiveTicks
  /\ adaptive' = [adaptiveTick(adaptive) EXCEPT
       !.ticks = @ + 1,
       !.ticksStopped = IF adaptive.isStopped THEN @ + 1 ELSE @]
  /\ UNCHANGED << sessionVars, parseVars, writerVars, basicVars, providerVars, options >>

\* stop(): isStopped = true, then cleanup(), which clears the adaptive timer at
\* once when the session has no FileWriter and only after fileWriter.close() has
\* resolved when it has one.
AdaptStop(writer) ==
  /\ adaptive.phase \in {"connecting", "streaming"}
  /\ ~adaptive.isStopped
  /\ writer => adaptive.adaptiveIntervalId
  /\ adaptive' = [adaptive EXCEPT !.isStopped = TRUE,
                                  !.closing = writer,
                                  !.adaptiveIntervalId = writer]
  /\ UNCHANGED << sessionVars, parseVars, writerVars, basicVars, providerVars, options >>

\* cleanup() resumes after await fileWriter.close(): clearInterval(adaptiveIntervalId).
AdaptCleanupResume ==
  /\ adaptive.closing
  /\ adaptive' = [adaptive EXCEPT !.closing = FALSE, !.adaptiveIntervalId = FALSE]
  /\ UNCHANGED << sessionVars, parseVars, writerVars, basicVars, providerVars, options >>

NextAdapt ==
  \/ AdaptProcessStream
  \/ AdaptConnectOk
  \/ \E length \in QueueLengths : AdaptSample(length)
  \/ \E rate \in ReceiveRates : AdaptRate(rate)
  \/ AdaptiveTimer
  \/ \E writer \in BOOLEAN : AdaptStop(writer)
  \/ AdaptCleanupResume

SpecAdapt == InitAdapt /\ [][NextAdapt]_vars

\* ------------------------------------------------------------- SpecRate
\* The measurement of the arrival rate in the data handler: dataCount, the
\* constant dataCountStartTime and the assignment to dataReceiveRate.  The clock
\* is in milliseconds since dataCountStartTime and advances in steps of 500.
RateWindow == 1000

\* if (now - dataCountStartTime >= 1000) { dataReceiveRate = dataCount; dataCount = 0 }
RateUpdated(a) ==
  IF a.now >= RateWindow
  THEN [a EXCEPT !.dataReceiveRate = a.dataCount, !.dataCount = 0,
                 !.updates = @ + 1, !.lastUpdate = a.now,
                 !.receivedAtUpdate = a.received]
  ELSE a

\* A data line that completes n records: dataCount++ for each, then the update.
rateOfLine(a, n) ==
  RateUpdated([a EXCEPT !.dataCount = @ + n, !.received = @ + n, !.payloads = @ + 1])

RateData(n) ==
  /\ adaptive.phase = "streaming"
  /\ ~adaptive.isStopped
  /\ adaptive.payloads < MaxPayloads
  /\ adaptive' = rateOfLine(adaptive, n)
  /\ UNCHANGED << sessionVars, parseVars, writerVars, basicVars, providerVars, options >>

RateClock ==
  /\ adaptive.phase = "streaming"
  /\ adaptive.now + 500 <= MaxClock
  /\ adaptive' = [adaptive EXCEPT !.now = @ + 500]
  /\ UNCHANGED << sessionVars, parseVars, writerVars, basicVars, providerVars, options >>

NextRate ==
  \/ AdaptProcessStream
  \/ AdaptConnectOk
  \/ \E n \in 1..2 : RateData(n)
  \/ RateClock

SpecRate == InitAdapt /\ [][NextRate]_vars


\* =========================================================== SpecWriter
\* One FileWriter: write / flush / close called by its owner, the callbacks it
\* schedules (setImmediate in FIFO order, setTimeout, the flush timer, drain), and
\* the file stream, whose write returns true, returns false or throws.
WriterOptions ==
  [ batchSize : {1, 2}, maxQueueLength : {1}, queueFullStrategy : {"wait", "drop"},
    maxRetries : {1, 2} ]

\* What the file stream does: every write returns true / some return false /
\* some throw.
WriterEnvs ==
  [ stream : {"clean", "slow", "failing"}, text : {"distinct", "same"} ]

\* The line of the next write: a new one every time, or the same one again.
NextLine(w) == IF w.env.text = "same" THEN 1 ELSE w.calls.write + 1

InitWriter ==
  /\ BasicIdle
  /\ ProviderIdle
  /\ ensureDataIntegrity = TRUE
  /\ maxQueueLength = 1
  /\ maxBatchSize = 1
  /\ initialBatchSize = 1
  /\ webview = TRUE
  /\ historyFilePath = FALSE
  /\ env = [lines |-> {}, tails |-> {}, postFailures |-> FALSE, sink |-> "clean"]
  /\ SessionFields
  /\ ParseIdle
  /\ AdaptIdle
  /\ \E o \in WriterOptions, e \in WriterEnvs : fw = FileWriter(o, e)

CallsMade(w) == w.calls.flush + w.calls.close

Called(w, method) == [w EXCEPT !.calls[method] = @ + 1]

FwWrite ==
  /\ ~fw.hung
  /\ fw.calls.write < MaxWrites
  /\ fw' = write(Called(fw, "write"), NextLine(fw))
  /\ UNCHANGED << sessionVars, parseVars, adaptVars, basicVars, providerVars >>

FwFlush ==
  /\ ~fw.hung
  /\ CallsMade(fw) < MaxCalls
  /\ fw' = flush(Called(fw, "flush"))
  /\ UNCHANGED << sessionVars, parseVars, adaptVars, basicVars, providerVars >>

FwClose ==
  /\ ~fw.hung
  /\ CallsMade(fw) < MaxCalls
  /\ fw' = close(Called(fw, "close"))
  /\ UNCHANGED << sessionVars, parseVars, adaptVars, basicVars, providerVars >>

\* checkComplete finds everything written: the promise of flush() resolves.
FwFlushResolved ==
  /\ ~fw.hung
  /\ fw.flushPending > 0
  /\ FlushComplete(fw)
  /\ fw' = [fw EXCEPT !.flushPending = @ - 1]
  /\ UNCHANGED << sessionVars, parseVars, adaptVars, basicVars, providerVars >>

NextWriter ==
  \/ FwWrite
  \/ FwFlush
  \/ FwClose
  \/ \E outcome \in Outcomes(fw) : FwImmediate(outcome)
  \/ FwRetryTimer
  \/ FwFlushTimer
  \/ FwDrain
  \/ FwFlushResolved
  \/ FwCloseFlushed
  \/ FwEnded

SpecWriter == InitWriter /\ [][NextWriter]_vars


\* ============================================================ SpecBasic
\* One session of the basic StreamProcessor without a history file: data events,
\* the message timer, the retries flushBatchBuffer schedules under backpressure,
\* acknowledgments from the webview, stop() and the end of the stream.
maxPendingMessages == 100

Backpressured(b) ==
  b.enableBackpressure /\ b.pendingMessageCount >= maxPendingMessages

\* flushBatchBuffer: webview.postMessage inside try/catch.
BasicPosted(b, batch) ==
  IF b.postThrows
  THEN [b EXCEPT !.postThrows = FALSE, !.postFailures = @ + 1,
                 !.lost = @ \o batch,
                 !.pendingMessageCount = Max(0, b.pendingMessageCount - Len(batch))]
  ELSE [b EXCEPT !.posted = Append(@, batch)]

\* A flushBatchBuffer that posts whatever the number of unacknowledged records.
basicFlushBatchBuffer_NoBackpressure(b) ==
  IF b.batchBuffer = << >> \/ ~b.webview \/ b.isStopped
  THEN b
  ELSE BasicPosted([b EXCEPT !.batchBuffer = << >>, !.deferred = FALSE,
                             !.pendingMessageCount = @ + Len(b.batchBuffer)],
                   b.batchBuffer)

basicFlushBatchBuffer(b) ==
  IF b.batchBuffer = << >> \/ ~b.webview \/ b.isStopped
  THEN b
  ELSE IF Backpressured(b)
       THEN [b EXCEPT !.retryTimers = @ + 1, !.deferred = TRUE]
       ELSE BasicPosted([b EXCEPT !.batchBuffer = << >>, !.deferred = FALSE,
                                  !.pendingMessageCount = @ + Len(b.batchBuffer)],
                        b.batchBuffer)

BasicFlushIfFull(b) ==
  IF Len(b.batchBuffer) >= b.batchSize THEN basicFlushBatchBuffer(b) ELSE b

\* handleData: the line of the record goes to the file queue, if there is a path.
BasicLogged(b, data) ==
  IF b.historyFilePath THEN [b EXCEPT !.fileWriteQueue = Append(@, data)] ELSE b

basicHandleData(b, data) ==
  IF b.isStopped THEN b
  ELSE BasicFlushIfFull(BasicLogged([b EXCEPT !.batchBuffer = Append(@, data)], data))

\* flushFileQueue up to its first await: the queue is taken whole.
flushFileQueue(b) ==
  IF b.fileWriteQueue = << >> \/ b.isWritingFile \/ ~b.historyFilePath
  THEN b
  ELSE [b EXCEPT !.isWritingFile = TRUE, !.dataToWrite = b.fileWriteQueue,
                 !.fileWriteQueue = << >>]

\* flushFileQueue after appendFile succeeded: the finally block.
fileAppended(b) ==
  [b EXCEPT !.file = @ \o b.dataToWrite, !.dataToWrite = << >>, !.isWritingFile = FALSE]

\* flushFileQueue after mkdir or appendFile failed: the catch and finally blocks.
fileAppendFailed(b) ==
  [b EXCEPT !.fileWriteQueue = b.dataToWrite \o @, !.dataToWrite = << >>,
            !.isWritingFile = FALSE, !.appendFailures = @ + 1]

\* The callback of the file write timer.
basicFileTimer(b) == IF b.isStopped THEN b ELSE flushFileQueue(b)

\* The data handler: one record per line of the chunk.
RECURSIVE BasicRecords(_, _)
BasicRecords(b, n) ==
  IF n = 0 \/ b.isStopped THEN b
  ELSE BasicRecords(basicHandleData([b EXCEPT !.nextRecord = @ + 1], b.nextRecord + 1),
                    n - 1)

basicCleanup(b) ==
  flushFileQueue(basicFlushBatchBuffer([b EXCEPT !.messageIntervalId = FALSE,
                                                 !.fileWriteIntervalId = FALSE]))

basicDataHandler(b, n) == IF b.isStopped THEN basicCleanup(b) ELSE BasicRecords(b, n)

\* options.onComplete?.()
BasicCompleted(b) ==
  IF b.completed THEN b
  ELSE [b EXCEPT !.completed = TRUE, !.postedAtComplete = Len(b.posted),
                 !.recordsAtComplete = b.nextRecord]

\* The [DONE] line: flushBatchBuffer, onComplete, cleanup.
basicDone(b) == basicCleanup(BasicCompleted(basicFlushBatchBuffer(b)))

basicEndHandler(b) ==
  basicCleanup(BasicCompleted(flushFileQueue(
                 basicFlushBatchBuffer([b EXCEPT !.stream = "ended"]))))

basicStop(b) ==
  basicCleanup([b EXCEPT !.isStopped = TRUE, !.stopped = TRUE,
                         !.stream = IF @ = "open" THEN "destroyed" ELSE @])

handleMessageAck(b, count) ==
  [b EXCEPT !.acknowledgedMessageCount = @ + count,
            !.pendingMessageCount = Max(0, @ - count)]

\* The callback of the message timer.
basicMessageTimer(b) ==
  IF b.isStopped THEN b
  ELSE IF b.due /\ b.batchBuffer # << >>
       THEN [basicFlushBatchBuffer(b) EXCEPT !.due = FALSE]
       ELSE b

BasicOptions ==
  [ batchSize : {0, 50}, enableBackpressure : BOOLEAN, webview : {TRUE},
    historyFilePath : {FALSE} ]

ChunkSizes == {30, 50}
AckCounts == {50}

InitBasic ==
  /\ ensureDataIntegrity = TRUE
  /\ maxQueueLength = 1
  /\ maxBatchSize = 1
  /\ initialBatchSize = 1
  /\ webview = TRUE
  /\ historyFilePath = FALSE
  /\ env = [lines |-> {}, tails |-> {}, postFailures |-> FALSE, sink |-> "clean"]
  /\ SessionFields
  /\ ParseIdle
  /\ AdaptIdle
  /\ WriterIdle
  /\ ProviderIdle
  /\ \E o \in BasicOptions : basic = StreamProcessor(o)

\* processStream: the reset, the request and the start of the message timer.
BasicProcessStream ==
  /\ basic.phase = "idle"
  /\ basic' = [basic EXCEPT !.phase = "streaming", !.isStopped = FALSE,
                            !.batchBuffer = << >>, !.pendingMessageCount = 0,
                            !.due = FALSE, !.stream = "open",
                            !.messageIntervalId = TRUE,
                            !.fileWriteIntervalId = basic.historyFilePath]
  /\ UNCHANGED << sessionVars, writerVars, parseVars, adaptVars, providerVars >>

BasicData(n) ==
  /\ basic.stream = "open"
  /\ basic.retryTimers < MaxRetryTimers
  /\ basic.nextRecord + n <= MaxBasicRecords
  /\ basic' = basicDataHandler(basic, n)
  /\ UNCHANGED << sessionVars, writerVars, parseVars, adaptVars, providerVars >>

BasicDone ==
  /\ basic.stream = "open"
  /\ ~basic.isStopped
  /\ basic.messageIntervalId
  /\ basic.retryTimers < MaxRetryTimers
  /\ basic' = basicDone(basic)
  /\ UNCHANGED << sessionVars, writerVars, parseVars, adaptVars, providerVars >>

BasicEnd ==
  /\ basic.stream = "open"
  /\ basic.retryTimers < MaxRetryTimers
  /\ basic' = basicEndHandler(basic)
  /\ UNCHANGED << sessionVars, writerVars, parseVars, adaptVars, providerVars >>

BasicStop ==
  /\ basic.phase = "streaming"
  /\ ~basic.stopped
  /\ basic' = basicStop(basic)
  /\ UNCHANGED << sessionVars, writerVars, parseVars, adaptVars, providerVars >>

BasicAck(count) ==
  /\ basic.pendingMessageCount > 0
  /\ basic' = handleMessageAck(basic, count)
  /\ UNCHANGED << sessionVars, writerVars, parseVars, adaptVars, providerVars >>

BasicMessageTimer ==
  /\ basic.messageIntervalId
  /\ basic.due
  /\ basic.retryTimers < MaxRetryTimers
  /\ basic' = basicMessageTimer(basic)
  /\ UNCHANGED << sessionVars, writerVars, parseVars, adaptVars, providerVars >>

\* Time passes: messageInterval has elapsed since lastMessageTime.
BasicTick ==
  /\ basic.phase = "streaming"
  /\ basic.messageIntervalId
  /\ ~basic.due
  /\ basic' = [basic EXCEPT !.due = TRUE]
  /\ UNCHANGED << sessionVars, writerVars, parseVars, adaptVars, providerVars >>

\* The retry flushBatchBuffer scheduled with setTimeout.
BasicRetry ==
  /\ basic.retryTimers > 0
  /\ basic' = basicFlushBatchBuffer([basic EXCEPT !.retryTimers = @ - 1])
  /\ UNCHANGED << sessionVars, writerVars, parseVars, adaptVars, providerVars >>

\* The webview goes away for one postMessage call.
BasicPlanFailure ==
  /\ basic.phase = "streaming"
  /\ ~basic.postThrows
  /\ basic.postFailures < MaxPostFailures
  /\ basic' = [basic EXCEPT !.postThrows = TRUE]
  /\ UNCHANGED << sessionVars, writerVars, parseVars, adaptVars, providerVars >>

NextBasic ==
  \/ BasicProcessStream
  \/ \E n \in ChunkSizes : BasicData(n)
  \/ BasicDone
  \/ BasicEnd
  \/ BasicStop
  \/ \E count \in AckCounts : BasicAck(count)
  \/ BasicMessageTimer
  \/ BasicTick
  \/ BasicRetry
  \/ BasicPlanFailure

SpecBasic == InitBasic /\ [][NextBasic]_vars


\* ============================================================ SpecHistory
\* One session of the basic StreamProcessor with a history file: the records
\* handleData puts into fileWriteQueue, the file write timer, flushFileQueue and
\* the appendFile calls it awaits.  Backpressure is off and batchSize is the
\* default, so the webview side stays out of the way.
LoggedOptions ==
  [ batchSize : {0}, enableBackpressure : {FALSE}, webview : {TRUE},
    historyFilePath : {TRUE} ]

LoggedChunks == {1, 2}

BasicFrame == UNCHANGED << sessionVars, writerVars, parseVars, adaptVars, providerVars >>

InitHistory ==
  /\ ensureDataIntegrity = TRUE
  /\ maxQueueLength = 1
  /\ maxBatchSize = 1
  /\ initialBatchSize = 1
  /\ webview = TRUE
  /\ historyFilePath = FALSE
  /\ env = [lines |-> {}, tails |-> {}, postFailures |-> FALSE, sink |-> "clean"]
  /\ SessionFields
  /\ ParseIdle
  /\ AdaptIdle
  /\ WriterIdle
  /\ ProviderIdle
  /\ \E o \in LoggedOptions : basic = StreamProcessor(o)

LoggedData(n) ==
  /\ basic.stream = "open"
  /\ basic.nextRecord + n <= MaxLoggedRecords
  /\ basic' = basicDataHandler(basic, n)
  /\ BasicFrame

\* The file write timer fires.
BasicFileTimer ==
  /\ basic.fileWriteIntervalId
  /\ basic' = basicFileTimer(basic)
  /\ BasicFrame

\* The awaited mkdir and appendFile of flushFileQueue succeed.
BasicAppended ==
  /\ basic.isWritingFile
  /\ basic' = fileAppended(basic)
  /\ BasicFrame

\* One of them fails.
BasicAppendFailed ==
  /\ basic.isWritingFile
  /\ basic.appendFailures < MaxAppendFailures
  /\ basic' = fileAppendFailed(basic)
  /\ BasicFrame

NextHistory ==
  \/ BasicProcessStream
  \/ \E n \in LoggedChunks : LoggedData(n)
  \/ BasicDone
  \/ BasicEnd
  \/ BasicStop
  \/ BasicFileTimer
  \/ BasicAppended
  \/ BasicAppendFailed

SpecHistory == InitHistory /\ [][NextHistory]_vars


\* ============================================================ SpecProvider
\* One CaseWebviewProvider (src/src/providers/caseWebviewProvider.ts) and the
\* StreamProcessorOptimized sessions its startStream messages create.  Each session
\* is a processor record of the shape of Cur, driven by the operators of Spec; the
\* streams carry no records, only data: [DONE] and the end of the stream.  The
\* provider always gives a history file, so every session has a FileWriter and
\* the awaits of flushFileWriter() resume in a later turn of the event loop.
\* provider.streamProcessorOptimized is the number of the session the field
\* refers to, 0 for null.

\* processStream() up to await axios(...): the reset of the per-session state.
Requested(s) ==
  [s EXCEPT !.isStopped = FALSE, !.batchBuffer = << >>, !.messageQueue = << >>,
            !.pendingDataBuffer = << >>, !.currentBatchSize = initialBatchSize,
            !.sendDue = FALSE, !.totalDataReceived = 0, !.totalDataSent = 0]

\* processStream() after the request succeeded.
Connected(s) ==
  [s EXCEPT !.stream = "open", !.messageIntervalId = TRUE,
            !.fileWriter = historyFilePath,
            !.fw = IF historyFilePath THEN SessionWriter(env.sink) ELSE @,
            !.adaptiveIntervalId = TRUE]

\* onComplete calls a processor has made.
Completions(s) == Cardinality({k \in 1..Len(s.signals) : s.signals[k].kind = "completed"})

\* if (this.streamProcessorOptimized) this.streamProcessorOptimized.stop()
StopCurrent(p) ==
  IF p.streamProcessorOptimized = 0 THEN p
  ELSE [p EXCEPT !.sessions[p.streamProcessorOptimized].s = stop(@)]

\* handleStartStream up to the await inside processStream.  The session variables
\* hold a processor as its constructor leaves it.
handleStartStream(p) ==
  [StopCurrent(p) EXCEPT
     !.sessions = Append(@, [s |-> Requested(Cur), phase |-> "connecting",
                             doneLines |-> 0]),
     !.streamProcessorOptimized = Len(p.sessions) + 1]

handleStopStream(p) ==
  [StopCurrent(p) EXCEPT !.streamProcessorOptimized = 0, !.stops = @ + 1]

\* A handler of session i has run and left the processor as s.  The onComplete
\* the provider gave the processor sets this.streamProcessorOptimized = null.
Stepped(p, i, s) ==
  [p EXCEPT !.sessions[i].s = s,
            !.streamProcessorOptimized =
               IF Completions(s) > Completions(p.sessions[i].s) THEN 0 ELSE @]

InitProvider ==
  /\ ensureDataIntegrity = TRUE
  /\ maxQueueLength = 1
  /\ maxBatchSize = 1
  /\ initialBatchSize = 1
  /\ webview = TRUE
  /\ historyFilePath = TRUE
  /\ env = [lines |-> {"done"}, tails |-> {"empty"}, postFailures |-> FALSE,
            sink |-> "clean"]
  /\ SessionFields
  /\ ParseIdle
  /\ AdaptIdle
  /\ WriterIdle
  /\ BasicIdle
  /\ ProviderIdle

ProviderFrame == UNCHANGED << sessionVars, writerVars, parseVars, adaptVars, basicVars >>

StartStream ==
  /\ Len(provider.sessions) < MaxSessions
  /\ provider' = handleStartStream(provider)
  /\ ProviderFrame

StopStream ==
  /\ provider.stops < MaxStops
  /\ provider' = handleStopStream(provider)
  /\ ProviderFrame

SessionConnectOk(i) ==
  /\ provider.sessions[i].phase = "connecting"
  /\ provider' = [provider EXCEPT !.sessions[i].s = Connected(@),
                                  !.sessions[i].phase = "streaming"]
  /\ ProviderFrame

SessionDone(i) ==
  /\ provider.sessions[i].phase = "streaming"
  /\ provider.sessions[i].s.stream = "open"
  /\ provider.sessions[i].doneLines < MaxDoneLines
  /\ provider' = Stepped([provider EXCEPT !.sessions[i].doneLines = @ + 1], i,
                         dataHandler(provider.sessions[i].s, << "done" >>, "empty"))
  /\ ProviderFrame

SessionDoneResume(i) ==
  /\ provider.sessions[i].s.doneAwaiting > 0
  /\ FlushSettled(provider.sessions[i].s)
  /\ provider' = Stepped(provider, i, doneResume(provider.sessions[i].s))
  /\ ProviderFrame

SessionEnd(i) ==
  /\ provider.sessions[i].phase = "streaming"
  /\ provider.sessions[i].s.stream = "open"
  /\ provider' = Stepped(provider, i, endHandler(provider.sessions[i].s))
  /\ ProviderFrame

SessionEndResume(i) ==
  /\ provider.sessions[i].s.endAwaiting > 0
  /\ FlushSettled(provider.sessions[i].s)
  /\ provider' = Stepped(provider, i, endResume(provider.sessions[i].s))
  /\ ProviderFrame

SessionCleanupResume(i) ==
  /\ CloseSettled(provider.sessions[i].s)
  /\ provider' = Stepped(provider, i,
                         cleanupRest([provider.sessions[i].s
                                        EXCEPT !.cleanupAwaiting = @ - 1]))
  /\ ProviderFrame

\* close() of the session's FileWriter after its await of flush().
SessionCloseFlushed(i) ==
  /\ provider.sessions[i].s.fw.closing = "flushing"
  /\ FlushComplete(provider.sessions[i].s.fw)
  /\ provider' = [provider EXCEPT !.sessions[i].s.fw = closeFlushed(@)]
  /\ ProviderFrame

\* The callback of writeStream.end() of the session's FileWriter.
SessionWriterEnded(i) ==
  /\ provider.sessions[i].s.fw.closing = "ending"
  /\ provider' = [provider EXCEPT !.sessions[i].s.fw.closing = "done",
                                  !.sessions[i].s.fw.writeStream = "null"]
  /\ ProviderFrame

Sessions == 1..Len(provider.sessions)

NextProvider ==
  \/ StartStream
  \/ StopStream
  \/ \E i \in Sessions : SessionConnectOk(i)
  \/ \E i \in Sessions : SessionDone(i)
  \/ \E i \in Sessions : SessionDoneResume(i)
  \/ \E i \in Sessions : SessionEnd(i)
  \/ \E i \in Sessions : SessionEndResume(i)
  \/ \E i \in Sessions : SessionCleanupResume(i)
  \/ \E i \in Sessions : SessionCloseFlushed(i)
  \/ \E i \in Sessions : SessionWriterEnded(i)

SpecProvider == InitProvider /\ [][NextProvider]_vars


\* ============================================================== claims
PostedRecords == Flatten(posted)

\* A session run without stop() in which no postMessage call threw.
CleanRun == postFailures = 0 /\ stopLog.calls = 0

Completed(i) == signals[i].kind = "completed"

\* C1: integrity mode, no stop(), every postMessage succeeds: whenever the session
\* signals completion, as many records have been sent as were received.
C1_ReceivedEqualsSentAtCompletion ==
  (ensureDataIntegrity /\ webview /\ CleanRun)
    => \A i \in 1..Len(signals) :
         Completed(i) => signals[i].totalReceived = signals[i].totalSent

\* C2: in a clean run the records posted to the webview, batch after batch, are the
\* accepted records 1, 2, 3, ... each exactly once and in arrival order, and by the
\* completion signal every accepted record has been posted.
C2_PostedOnceInArrivalOrder ==
  (webview /\ CleanRun)
    => /\ \A k \in 1..Len(PostedRecords) : PostedRecords[k] = k
       /\ \A i \in 1..Len(signals) :
            Completed(i) => signals[i].totalSent = signals[i].totalReceived

\* C3: stop() in integrity mode hands every record it finds in batchBuffer,
\* messageQueue or pendingDataBuffer to the webview before it posts streamStopped.
C3_StopDrainsPending ==
  (stopLog.calls > 0 /\ ensureDataIntegrity /\ webview /\ postFailures = 0)
    => Range(stopLog.held) \subseteq Range(PostedRecords)

\* C4: whenever flushBatchBuffer returns, messageQueue.length <= maxQueueLength.
C4_QueueBoundAfterFlush == flushPeak <= maxQueueLength

\* all is an interleaving of a and b: every element of all went to a or to b, and
\* both kept the order the elements had in all.
RECURSIVE IsOrderedSplit(_, _, _)
IsOrderedSplit(all, a, b) ==
  IF all = << >> THEN a = << >> /\ b = << >>
  ELSE \/ a # << >> /\ Head(a) = Head(all) /\ IsOrderedSplit(Tail(all), Tail(a), b)
       \/ b # << >> /\ Head(b) = Head(all) /\ IsOrderedSplit(Tail(all), a, Tail(b))

SessionOver ==
  /\ stream \in {"ended", "errored", "destroyed"}
  /\ doneAwaiting = 0
  /\ endAwaiting = 0

\* C6: a session emits exactly one terminal signal: never a second one, and (when
\* no postMessage call threw) never none once the session is over.
C6_ExactlyOneTerminalSignal ==
  /\ Len(signals) <= 1
  /\ (SessionOver /\ webview /\ postFailures = 0) => Len(signals) = 1

DoneProcessed ==
  doneAwaiting > 0 \/ \E i \in 1..Len(signals) : signals[i].from = "done"

\* C7: once a data: [DONE] line has been processed no record is accepted any more.
C7_InertAfterDone ==
  [][DoneProcessed => totalDataReceived' = totalDataReceived]_vars

\* The stream carries one JSON text / the record JSON.parse makes of the i-th text.
SingleText == Len(pValues) = 1

AllDelivered == pText # << >> /\ pPos = Len(pText)

ParsedWhole(i) == JSONparse(pValues[i]).value

\* The last line of the stream has been handled: by the data handler when a
\* newline ends it, by the end handler when none does.
LastLineHandled == pEnded \/ (AllDelivered /\ pTail # "none")

CutsKeepStrings ==
  \A c \in pCuts :
     ~(pValues[1][c] \in Whitespace
       /\ CountLoop(ParsedState(Null), SubSeq(pValues[1], 1, c)).inString)

C9_ConcatenationSplitting ==
  (Len(pValues) >= 2 /\ LastLineHandled) =>
     /\ Len(pEmitted) = Len(pValues)
     /\ \A i \in 1..Len(pValues) : pEmitted[i] = ParsedWhole(i)

StoppedFast == stopLog.calls > 0 /\ ~ensureDataIntegrity

\* C10: after stop() with integrity mode off the three buffers are empty, the
\* streamStopped message was posted by stop() itself (unless that postMessage call
\* threw), and from then on no record is accepted and no streamData batch is posted.
C10_ImmediateCancellation ==
  /\ [](StoppedFast =>
          /\ batchBuffer = << >>
          /\ messageQueue = << >>
          /\ pendingDataBuffer = << >>
          /\ webview /\ ~stopLog.postThrew
               => \E i \in 1..Len(signals) : signals[i].kind = "stopped")
  /\ [][StoppedFast => /\ totalDataReceived' = totalDataReceived
                       /\ posted' = posted]_vars

\* C11: in every state of a processor, after construction, after the reset of
\* processStream and after any adaptive tick, both adaptive parameters lie within
\* their configured limits.
C11_AdaptiveParamsWithinBounds ==
  /\ adaptive.minBatchSize <= adaptive.currentBatchSize
  /\ adaptive.currentBatchSize <= adaptive.maxBatchSize
  /\ adaptive.minMessageInterval <= adaptive.currentMessageInterval
  /\ adaptive.currentMessageInterval <= adaptive.maxMessageInterval

\* getStatus(), called between two callbacks of the session.
getStatus(s) ==
  [ totalDataReceived |-> s.totalDataReceived,
    totalDataSent |-> s.totalDataSent,
    pendingCount |->
      Len(s.batchBuffer) + Len(s.messageQueue) + Len(s.pendingDataBuffer) ]

Accounted(status) ==
  status.totalDataReceived = status.totalDataSent + status.pendingCount

\* C12: whenever getStatus() is called during a session it reports
\* totalDataReceived = totalDataSent + dataIntegrity.pendingCount.
C12_AccountingAtEveryObservation == Accounted(getStatus(Cur))

\* C13: in integrity mode, when postMessage throws for a batch, the catch block
\* leaves the records of the batch at the front of the pending buffer and does not
\* count them as sent, and afterwards each of them is still held in a buffer or
\* has been posted (sessions without stop()).
C13_FailedBatchBackAtFront ==
  (ensureDataIntegrity /\ failLog.batch # << >> /\ stopLog.calls = 0)
    => /\ Take(failLog.pending, Len(failLog.batch)) = failLog.batch
       /\ failLog.sentAfter = failLog.sentBefore
       /\ Range(failLog.batch) \subseteq
            Range(batchBuffer \o Flatten(messageQueue) \o pendingDataBuffer
                  \o PostedRecords)

\* The batches [r1], [r2], ..., [rN].
OneByOne(n) == [i \in 1..n |-> << i >>]

\* C14: batch size 1, N data lines with one object each and then [DONE], every
\* postMessage succeeding, no stop() and no queue overflow: the batches posted are
\* [r1], ..., [rN], and there is exactly one terminal signal, completed, with
\* totalReceived = N and totalSent = N.
C14_OneBatchPerRecordThenCompleted ==
  (/\ initialBatchSize = 1 /\ webview /\ CleanRun /\ mergeLog.kind = "none"
   /\ signals # << >> /\ signals[1].from = "done")
    => /\ posted = OneByOne(nextRecord)
       /\ Len(signals) = 1
       /\ signals[1].kind = "completed"
       /\ signals[1].totalReceived = nextRecord
       /\ signals[1].totalSent = nextRecord

\* C17: a closed FileWriter is inert.  A close() or a write() on a writer that is
\* already closed changes nothing: not the queue, not the buffer, not the pending
\* callbacks, not what was written to the stream or whether it was ended.
C17_ClosedWriterInert ==
  [][ (fw.isClosed /\ (fw'.calls.close # fw.calls.close
                        \/ fw'.calls.write # fw.calls.write))
      => [fw' EXCEPT !.calls = fw.calls] = fw ]_vars

\* A second close() and a write() after close() both happened, on a writer that
\* was closed with a line still in its buffer.
C17_Witness ==
  /\ fw.isClosed
  /\ fw.calls.close = 2
  /\ Len(fw.accepted) < fw.calls.write
  /\ fw.currentBuffer # << >>

\* Nothing more will run on the writer: the event loop is stuck in flush(), or no
\* callback is pending and the awaited flush of close() cannot complete.
WriterSettled(w) ==
  \/ w.hung
  \/ /\ w.immediates = << >>
     /\ w.retryTimers = 0
     /\ ~w.drainWaiting
     /\ w.closing # "ending"
     /\ ~(w.closing = "flushing" /\ FlushComplete(w))
     /\ ~(w.flushPending > 0 /\ FlushComplete(w))

\* C16: close() performs a final flush.  When close() has been called, no write
\* to the stream has failed, no line was dropped from a full queue, and nothing
\* more will run on the writer, then the stream has been ended and every line that
\* write() took before the close has been written to it, in order.
C16_CloseFlushesEverything ==
  (fw.calls.close > 0 /\ fw.failures = << >> /\ fw.dropped = << >>
   /\ WriterSettled(fw))
    => (fw.ended /\ fw.written = fw.accepted)

\* The number of times data was handed to the stream and the write threw.
RECURSIVE TimesIn(_, _)
TimesIn(data, log) ==
  IF log = << >> THEN 0
  ELSE (IF Head(log) = data THEN 1 ELSE 0) + TimesIn(data, Tail(log))

\* C18: retry after a write failure is bounded.  When every line is written once
\* (no two lines are equal), data whose write has failed is handed to the stream
\* again at most maxRetries times: no write is scheduled for data that has
\* already failed more than maxRetries times.
C18_RetryIsBounded ==
  fw.env.text = "distinct"
    => \A i \in 1..Len(fw.immediates) :
         fw.immediates[i].kind = "write"
           => TimesIn(fw.immediates[i].data, fw.failures) <= fw.maxRetries

\* Strictly increasing: no record twice, and in the order of arrival.
Ascending(log) == \A i \in 1..Len(log) - 1 : log[i] < log[i + 1]

\* C15: durable logging.  In a session with a history file every record counted
\* in totalDataReceived has been passed to FileWriter.write, and taken by it,
\* exactly once and in arrival order, whatever the state of the delivery queue.
C15_EveryRecordLogged ==
  (historyFilePath /\ phase # "idle")
    => (Len(fw.accepted) = totalDataReceived /\ Ascending(fw.accepted))

\* C19: a write failure of the session's FileWriter stays off the delivery path.
\* The step in which a write to the history file fails leaves isStopped, the three
\* buffers and both counters as they were, and the onError callback the session
\* gave its FileWriter, which calls options.onError, is never run.
C19_WriteFailureIsolated ==
  /\ [][fw'.failures # fw.failures
          => UNCHANGED << isStopped, batchBuffer, messageQueue, pendingDataBuffer,
                          totalDataReceived, totalDataSent, stream >>]_vars
  /\ [](historyFilePath => fw.onErrors = 0)

\* A terminal transition was taken: the sentinel, the end or an error of the
\* stream, a failed request, or stop().
TerminalTransition ==
  \/ DoneProcessed
  \/ stream \in {"ended", "errored"}
  \/ phase = "failed"
  \/ stopLog.calls > 0

\* Nothing more will run in the session: the event loop is stuck, or the stream is
\* over, the FileWriter has no callback pending and no awaited flush or close can
\* resume.
SessionSettled ==
  \/ fw.hung
  \/ /\ stream # "open"
     /\ fw.immediates = << >>
     /\ fw.retryTimers = 0
     /\ ~fw.drainWaiting
     /\ ~(fw.flushTimer /\ fw.currentBuffer # << >>)
     /\ fw.closing # "ending"
     /\ ~(fw.closing = "flushing" /\ FlushComplete(fw))
     /\ ~(doneAwaiting + endAwaiting > 0 /\ FlushSettled(Cur))
     /\ ~CloseSettled(Cur)

\* C20: teardown after a terminal transition.  Once a terminal transition was
\* taken and nothing more will run in the session, the message timer and the
\* adaptive timer are cancelled and the FileWriter, if one was created, has ended
\* its stream and is released.
C20_TornDownAfterTerminal ==
  (TerminalTransition /\ SessionSettled)
    => /\ ~messageIntervalId
       /\ ~adaptiveIntervalId
       /\ ~fileWriter
       /\ fw.closing \in {"no", "done"}

\* The retry runs after acknowledgments for every posted record have come in.
RetryAfterAcks(b) ==
  basicFlushBatchBuffer(handleMessageAck(b, b.pendingMessageCount))

\* flushBatchBuffer under backpressure: nothing but the scheduled retry changes.
HeldBack(b) ==
  basicFlushBatchBuffer(b) = [b EXCEPT !.retryTimers = @ + 1, !.deferred = TRUE]

FailedAndSettled ==
  /\ ensureDataIntegrity
  /\ webview
  /\ stopLog.calls = 0
  /\ failLog.batch # << >>
  /\ SessionSettled
  /\ ~fw.hung

\* C22: integrity mode, one postMessage call for a batch throws and the later
\* calls succeed: by the time the session has settled every record of the failed
\* batch has been posted by a later attempt, exactly once.
C22_FailedBatchDeliveredOnce ==
  FailedAndSettled
    => \A k \in 1..Len(failLog.batch) :
         TimesIn(failLog.batch[k], PostedRecords) = 1

\* The callback that has just run was one of the adaptive timer.
Ticked == adaptive'.ticks = adaptive.ticks + 1

\* Both parameters lie within their configured limits.
WithinLimits(a) ==
  /\ a.minBatchSize <= a.currentBatchSize
  /\ a.currentBatchSize <= a.maxBatchSize
  /\ a.minMessageInterval <= a.currentMessageInterval
  /\ a.currentMessageInterval <= a.maxMessageInterval

\* adaptiveAdjust gets as far as its rules, and the rate rule is not triggered.
QueueRuleAlone(a) ==
  /\ ~a.isStopped
  /\ Len(a.queueLengthHistory) >= 3
  /\ a.dataReceiveRate >= 10
  /\ a.dataReceiveRate <= 100

\* C23: the queue-pressure rule.  On a tick that starts within the limits, under
\* high pressure (mean of the window above 70% of maxQueueLength or its maximum
\* above 90%) each of currentBatchSize and currentMessageInterval ends strictly
\* larger unless it was at its max; under low pressure (mean below 30% and maximum
\* below 50%) each ends strictly smaller unless it was at its min.
C23_QueueRuleMovesBoth ==
  [][(Ticked /\ WithinLimits(adaptive) /\ QueueRuleAlone(adaptive))
       => /\ QueuePressureHigh(adaptive.queueLengthHistory, adaptive.maxQueueLength)
               => /\ \/ adaptive'.currentBatchSize > adaptive.currentBatchSize
                     \/ adaptive.currentBatchSize = adaptive.maxBatchSize
                  /\ \/ adaptive'.currentMessageInterval > adaptive.currentMessageInterval
                     \/ adaptive.currentMessageInterval = adaptive.maxMessageInterval
          /\ (/\ ~QueuePressureHigh(adaptive.queueLengthHistory, adaptive.maxQueueLength)
              /\ QueuePressureLow(adaptive.queueLengthHistory, adaptive.maxQueueLength))
               => /\ \/ adaptive'.currentBatchSize < adaptive.currentBatchSize
                     \/ adaptive.currentBatchSize = adaptive.minBatchSize
                  /\ \/ adaptive'.currentMessageInterval < adaptive.currentMessageInterval
                     \/ adaptive.currentMessageInterval = adaptive.minMessageInterval]_vars

\* currentBatchSize after the queue rule, when adaptiveAdjust applies it.
AfterQueueRule(a) ==
  IF Len(a.queueLengthHistory) < 3 THEN a.currentBatchSize
  ELSE AdjustByQueue(a).currentBatchSize

\* C24: the arrival-rate rule is independent of the queue rule.  On every tick of
\* a running session that starts within the limits, dataReceiveRate > 100 leaves
\* currentBatchSize above what the queue rule made of it unless that is the max,
\* and dataReceiveRate < 10 leaves it below unless that is the min, whatever the
\* window contains and however few samples it holds.
C24_RateRuleOnEveryTick ==
  [][(Ticked /\ WithinLimits(adaptive) /\ ~adaptive.isStopped)
       => /\ adaptive.dataReceiveRate > 100
               => \/ adaptive'.currentBatchSize > AfterQueueRule(adaptive)
                  \/ AfterQueueRule(adaptive) = adaptive.maxBatchSize
          /\ adaptive.dataReceiveRate < 10
               => \/ adaptive'.currentBatchSize < AfterQueueRule(adaptive)
                  \/ AfterQueueRule(adaptive) = adaptive.minBatchSize]_vars

\* C25: a tick of the adaptive timer changes nothing except currentBatchSize and
\* currentMessageInterval: the buffers, the window of queue lengths, the rate,
\* the counters and isStopped are as before and no batch is posted; a tick after
\* stop() changes nothing at all.
C25_TickChangesOnlyTheParameters ==
  [][Ticked
       => /\ [adaptive' EXCEPT !.currentBatchSize = adaptive.currentBatchSize,
                               !.currentMessageInterval = adaptive.currentMessageInterval,
                               !.ticks = adaptive.ticks,
                               !.ticksStopped = adaptive.ticksStopped] = adaptive
          /\ adaptive.isStopped
               => /\ adaptive'.currentBatchSize = adaptive.currentBatchSize
                  /\ adaptive'.currentMessageInterval = adaptive.currentMessageInterval
          /\ UNCHANGED << batchBuffer, messageQueue, pendingDataBuffer, totalDataReceived,
                          totalDataSent, isStopped, posted, signals >>]_vars

\* The adaptive timer has fired after stop(), while cleanup() was waiting for the
\* FileWriter, on a window that would have moved the parameters.
C25_Witness ==
  /\ adaptive.ticksStopped > 0
  /\ adaptive.ticks > adaptive.ticksStopped
  /\ adaptiveAdjust(adaptive) # adaptive

\* C26: within one session, from the reset of processStream on, neither
\* totalDataReceived nor totalDataSent ever decreases.
C26_CountersNeverDecrease ==
  [][phase # "idle"
       => /\ totalDataReceived' >= totalDataReceived
          /\ totalDataSent' >= totalDataSent]_vars

\* Records were received and sent, a postMessage call for a batch threw and the
\* session is over.
C26_Witness ==
  /\ totalDataReceived >= 2
  /\ totalDataSent >= 1
  /\ failLog.batch # << >>
  /\ SessionOver

\* A callback of an open stream (data handler or message timer) that posted
\* without a forced merge, a merge of queue items, a final drain or a postMessage
\* call that threw.
PacedDelivery ==
  /\ stream = "open"
  /\ stream' = "open"
  /\ posted' # posted
  /\ mergeLog' = mergeLog
  /\ signals' = signals
  /\ doneAwaiting' = doneAwaiting
  /\ stopLog' = stopLog
  /\ postFailures' = postFailures

\* The batch starts with the oldest record that had not been posted before.
OldestUndelivered(batch, before) ==
  /\ batch # << >>
  /\ batch[1] \notin Range(before)
  /\ \A r \in 1..(batch[1] - 1) : r \in Range(before)

\* C27: delivery pacing.  Outside forced merge and final drain a callback hands a
\* batch to the webview only when currentMessageInterval has elapsed since the
\* last successful delivery, it hands over one batch, and that batch is the
\* oldest one not delivered yet.
C27_PacedOldestFirst ==
  [][PacedDelivery
       => /\ sendDue
          /\ Len(posted') = Len(posted) + 1
          /\ OldestUndelivered(posted'[Len(posted')], PostedRecords)]_vars

\* C28: an unparseable fragment never blocks the reassembler.  In a stream whose
\* data lines carry one payload each, every well-formed object that comes after a
\* malformed or never-completed payload has been emitted as a record once the
\* last line has been handled.
C28_WellFormedAfterFragment ==
  LastLineHandled
    => \A i \in 1..Len(pValues) :
         (pValues[i] \in WellFormed /\ \E j \in 1..(i - 1) : pValues[j] \in Fragments)
           => ParsedWhole(i) \in Range(pEmitted)

\* The data handler has just run the [DONE] branch for a chunk that holds the
\* [DONE] line only, so that jsonBuffer is the text carried at the sentinel.
DoneAlone ==
  /\ doneAwaiting' = doneAwaiting + 1
  /\ linesSeen' = linesSeen + 1

C30_RateOverWholeSecond ==
  [][adaptive'.updates = adaptive.updates + 1
       => /\ adaptive.now - adaptive.lastUpdate >= RateWindow
          /\ adaptive'.dataReceiveRate = adaptive'.received - adaptive.receivedAtUpdate]_vars

\* The i-th terminal signal is an onError call for an upstream failure.
Failed(i) == signals[i].kind = "error" /\ signals[i].from \in {"error", "connect"}

\* C31: upstream failure.  The error of the stream or of the request is reported
\* by one onError call, the promise of processStream is still pending at that
\* moment (no earlier completion has resolved it) so that it rejects, no
\* onComplete call belongs to the failed session, and once nothing more runs in
\* the session the timers are cancelled and the FileWriter released.
C31_UpstreamFailureReportedOnce ==
  \A i \in 1..Len(signals) :
     Failed(i)
       => /\ \A j \in 1..Len(signals) : Failed(j) => j = i
          /\ \A j \in 1..Len(signals) : ~Completed(j)
          /\ (SessionSettled /\ ~fw.hung)
               => ~messageIntervalId /\ ~adaptiveIntervalId /\ ~fileWriter

\* C32: the write queue of the FileWriter is bounded: whenever write() has
\* returned, writeQueue holds at most maxQueueLength items, under 'drop' and
\* under 'wait'.
C32_WriteQueueBounded == Len(fw.writeQueue) <= fw.maxQueueLength

\* C33: flush() on an open writer always resolves.  After flush() has been called on
\* a writer that was never closed, the loop of flush() over the write queue has
\* returned (the event loop is not stuck in it), whatever the queue, the buffer and
\* isWriting were at the call.
C33_FlushOnOpenWriterReturns ==
  (fw.calls.flush > 0 /\ fw.calls.close = 0) => ~fw.hung

\* C34: close() always resolves with the stream ended and released.  When close()
\* has been called and nothing more will run on the writer, the loop of its flush
\* has returned, the stream has been ended and the writer holds it no more.
C34_CloseResolves ==
  (fw.calls.close > 0 /\ WriterSettled(fw))
    => (~fw.hung /\ fw.closing = "done" /\ fw.ended /\ fw.writeStream = "null")

\* C35: in every reachable state of a session, no more records have been counted
\* as sent to the webview than were received from the stream.
C35_SentAtMostReceived == totalDataSent <= totalDataReceived

\* The webview throws on the next postMessage call.
Throwing(s) == [s EXCEPT !.postPlan = << FALSE >>]

\* What the while loop of the message timer reads and sendNextBatch changes.
LoopState(s) == << s.messageQueue, s.pendingDataBuffer, s.sendDue >>

\* The while loop of the message timer exits when every postMessage call of the
\* firing throws: the loop is run turn by turn until its condition fails (it
\* ends) or it comes back to a state it has been in (it never ends).
RECURSIVE FiringEnds(_, _)
FiringEnds(s, seen) ==
  IF ~(Len(s.messageQueue) > 0 /\ s.sendDue) THEN TRUE
  ELSE IF LoopState(s) \in seen THEN FALSE
  ELSE FiringEnds(sendNextBatch(Throwing(s)), seen \cup {LoopState(s)})

\* C36: every firing of the message timer terminates.  In every state in which the
\* timer is armed and the session is not stopped, the loop of the callback over
\* the message queue exits after finitely many turns even when postMessage throws
\* on every attempt of the firing.
C36_TimerFiringTerminates ==
  (messageIntervalId /\ ~isStopped) => FiringEnds(Cur, {})

\* C37: basic StreamProcessor.  Once onComplete has been invoked and no record
\* has arrived since, nothing more is posted to the webview: the posts are those
\* made before onComplete.  In particular a flush that backpressure deferred
\* before completion does not deliver afterwards.
C37_NoPostAfterComplete ==
  (basic.completed /\ basic.nextRecord = basic.recordsAtComplete)
    => Len(basic.posted) = basic.postedAtComplete

\* Session ps of the provider is still running: it was started, it has not been
\* stopped, its stream has neither ended nor been destroyed and it has not
\* reported completion.
Running(ps) ==
  /\ ps.phase \in {"connecting", "streaming"}
  /\ ~ps.s.isStopped
  /\ ps.s.stream \in {"null", "open"}
  /\ Completions(ps.s) = 0

\* C38: CaseWebviewProvider.  Whenever a session the provider started is still
\* running, the provider's reference holds that session, so that stopStream stops
\* it: no callback of an earlier session has cleared or overwritten the reference.
C38_RunningSessionIsReferenced ==
  \A i \in 1..Len(provider.sessions) :
     Running(provider.sessions[i]) => provider.streamProcessorOptimized = i

\* Nothing more will run for the history file of the basic session: the stream
\* is over, the file write timer is cleared and no write is awaited.
HistorySettled ==
  /\ basic.phase = "streaming"
  /\ basic.stream # "open"
  /\ ~basic.fileWriteIntervalId
  /\ ~basic.isWritingFile

\* C39: history log of the basic StreamProcessor.  When every appendFile has
\* succeeded and nothing more will run for the file, the file holds every record
\* handleData accepted, in the order of arrival.
C39_EveryRecordAppended ==
  (HistorySettled /\ basic.appendFailures = 0)
    => basic.file = [i \in 1..basic.nextRecord |-> i]

\* The parser state of processStream before the first chunk.
FreshParser ==
  [lineBuffer |-> << >>, json |-> ParsedState(Null), emitted |-> << >>,
   completed |-> 0, returned |-> FALSE, ended |-> FALSE]

\* What a session emits for the same stream when a newline ends its last line,
\* so that the data handler processes the line before the stream ends.
EmittedIfTerminated ==
  endText(dataText(FreshParser, StreamText(pValues, pCuts, "newline"))).emitted

\* C40: the last data line is handled identically with and without a final
\* newline.  When a stream whose last line is unterminated has ended, the records
\* emitted are those emitted for the same stream with the line terminated: each
\* concatenated value and each array element is a record of its own.
C40_LastLineEitherWay ==
  (pEnded /\ pTail = "none") => pEmitted = EmittedIfTerminated

====
